---- MODULE Spec2Model ----
(***************************************************************************)
(* A model of the document-intelligence core of renewable-dd-tool:        *)
(*   - DocumentClassifier   (backend/document_processor/classifier.py)    *)
(*   - PPAExtractor         (.../extractors/ppa_extractor.py)             *)
(*   - DocumentQASystem     (backend/document_processor/qa_system.py)     *)
(*   - ExecutiveSummaryGenerator (.../summary_generator.py)               *)
(* Each component has its own specification (SpecClassify, SpecExtract,   *)
(* SpecQA, SpecSummary); the variables of the other components stay at    *)
(* their idle values.                                                      *)
(*                                                                         *)
(* Text is modelled as sequences of one-character strings, so that        *)
(* str.lower() and the substring test `keyword in text` are computed,     *)
(* not assumed.  Floats are modelled as exact rationals (plus nan and     *)
(* inf): every float the code compares here is the correctly rounded      *)
(* value of a rational with a small denominator, so exact comparison      *)
(* agrees with the float comparison.                                       *)
(***************************************************************************)
EXTENDS Integers, Sequences, FiniteSets, TLC

VARIABLES
  \* ---- DocumentClassifier.classify_document --------------------------
  c_pc,         \* "start" | "await_llm" | "done"
  c_filename,   \* argument filename
  c_text,       \* argument text, as its sequence of lines
  c_use_llm,    \* argument use_llm
  c_kw,         \* (keyword_type, keyword_confidence)
  c_reply,      \* what self.llm.ainvoke did, or NoReply
  c_llm,        \* (llm_type, llm_confidence), or NoValue
  c_llm_calls,  \* number of self.llm.ainvoke calls made by this call
  c_result,     \* the returned dict, Raised, or NoValue
  \* ---- PPAExtractor.extract -----------------------------------------
  e_pc,         \* "start" | "await_llm" | "done"
  e_text,       \* argument text, as its sequence of lines
  e_use_llm,    \* argument use_llm
  e_api_key,    \* whether settings.OPENAI_API_KEY is set
  e_regex,      \* regex_terms
  e_reply,      \* what self.llm.ainvoke did, or NoExtractReply
  e_combined,   \* combined_terms after the merge, before red_flags is set
  e_llm_calls,  \* number of self.llm.ainvoke calls made by this call
  e_result,     \* what extract did: the PPATerms returned or the exception
  \* ---- DocumentQASystem ---------------------------------------------
  q_index,      \* whether self.index is set (line 99) or still None
  q_store,      \* the vectors in the Pinecone index
  q_task,       \* for each task, the call it runs and where that call is
  q_calls,      \* number of calls begun
  q_last,       \* the delete_document_index call that ran last, if the
                \* last step was one
  \* ---- ExecutiveSummaryGenerator.generate_summary ---------------------
  s_pc,               \* "idle", "start", "await_llm", "done"
  s_project_data,     \* the arguments of the call
  s_checklist_status,
  s_issues,
  s_llm_calls,        \* number of llm.ainvoke calls made
  s_reply,            \* what llm.ainvoke did, or NoSummaryReply
  s_result            \* the summary returned, or that the call raised

c_vars == <<c_pc, c_filename, c_text, c_use_llm, c_kw, c_reply, c_llm,
            c_llm_calls, c_result>>

e_vars == <<e_pc, e_text, e_use_llm, e_api_key, e_regex, e_reply,
            e_combined, e_llm_calls, e_result>>

q_vars == <<q_index, q_store, q_task, q_calls, q_last>>
s_vars == <<s_pc, s_project_data, s_checklist_status, s_issues, s_llm_calls,
            s_reply, s_result>>

NoValue == [none |-> TRUE]

(***************************************************************************)
(* Floats.                                                                 *)
(***************************************************************************)
Num(n, d) == [k |-> "num", n |-> n, d |-> d]
NaN == [k |-> "nan", n |-> 0, d |-> 1]
Inf == [k |-> "inf", n |-> 1, d |-> 1]

\* a < b on floats; any comparison with nan is False.
FLt(a, b) ==
  CASE a.k = "nan" \/ b.k = "nan" -> FALSE
    [] a.k = "inf" -> FALSE
    [] b.k = "inf" -> TRUE
    [] OTHER -> a.n * b.d < b.n * a.d

FGt(a, b) == FLt(b, a)

\* a >= b on floats.
FGe(a, b) ==
  CASE a.k = "nan" \/ b.k = "nan" -> FALSE
    [] a.k = "inf" -> TRUE
    [] b.k = "inf" -> FALSE
    [] OTHER -> a.n * b.d >= b.n * a.d

FEq(a, b) ==
  CASE a.k = "nan" \/ b.k = "nan" -> FALSE
    [] a.k = "inf" \/ b.k = "inf" -> a.k = b.k
    [] OTHER -> a.n * b.d = b.n * a.d

\* floor(n / d) for d > 0 and any integer n.
FloorDiv(n, d) == IF n >= 0 THEN n \div d ELSE -((-n + d - 1) \div d)

\* round(x, ndigits=3): the nearest multiple of 1/1000, a tie going to the
\* even one; nan and inf are returned as they are.
Round3(x) ==
  IF x.k # "num" THEN x
  ELSE LET s  == 1000 * x.n
           q  == FloorDiv(s, x.d)
           r2 == 2 * (s - q * x.d)
           up == r2 > x.d \/ (r2 = x.d /\ q % 2 = 1)
       IN  Num(IF up THEN q + 1 ELSE q, 1000)

\* min(a, 1.0) for a number a.
CapAtOne(a) == IF FLt(Num(1, 1), a) THEN Num(1, 1) ELSE a

(***************************************************************************)
(* Strings as sequences of characters.                                     *)
(***************************************************************************)
UpperChars == <<"A","B","C","D","E","F","G","H","I","J","K","L","M",
                "N","O","P","Q","R","S","T","U","V","W","X","Y","Z">>
LowerChars == <<"a","b","c","d","e","f","g","h","i","j","k","l","m",
                "n","o","p","q","r","s","t","u","v","w","x","y","z">>

LowerChar(c) ==
  IF \E i \in 1..26 : UpperChars[i] = c
  THEN LowerChars[CHOOSE i \in 1..26 : UpperChars[i] = c]
  ELSE c

\* str.lower()
Lower(s) == [i \in 1..Len(s) |-> LowerChar(s[i])]

\* `sub in s`
Contains(s, sub) ==
  \E i \in 0..(Len(s) - Len(sub)) :
    \A j \in 1..Len(sub) : s[i + j] = sub[j]

(***************************************************************************)
(* api/config.py                                                           *)
(***************************************************************************)
\* MIN_CLASSIFICATION_CONFIDENCE: float = 0.75
MIN_CLASSIFICATION_CONFIDENCE == Num(75, 100)

(***************************************************************************)
(* classifier.py: the taxonomy                                             *)
(***************************************************************************)
\* class DocumentType: the values, in declaration order.
DocumentType ==
  << "ppa", "offtake_agreement", "merchant_agreement",
     "land_lease", "easement", "development_agreement", "epc_contract",
     "corporate_documents",
     "interconnection_agreement", "interconnection_study",
     "technical_specifications", "equipment_specifications",
     "production_data", "resource_assessment",
     "om_contract", "equipment_warranty", "service_agreement",
     "environmental_assessment", "environmental_permit",
     "environmental_study",
     "financial_model", "audit_report", "tax_document", "insurance_policy",
     "debt_agreement", "tax_equity_documents",
     "building_permit", "zoning_approval", "regulatory_approval",
     "title_report", "appraisal", "phase_i_esa", "unknown" >>

DocumentTypeValues == {DocumentType[i] : i \in 1..Len(DocumentType)}

UNKNOWN == "unknown"

\* DOCUMENT_TYPE_TO_CATEGORY.get(doc_type, None), then
\* `category.value if category else None`.
CategoryOf(doc_type) ==
  CASE doc_type \in {"ppa", "offtake_agreement", "merchant_agreement"}
         -> "Commercial"
    [] doc_type \in {"land_lease", "easement", "development_agreement",
                     "epc_contract", "corporate_documents",
                     "building_permit", "zoning_approval",
                     "regulatory_approval", "title_report"}
         -> "Legal"
    [] doc_type \in {"interconnection_agreement", "interconnection_study",
                     "technical_specifications", "equipment_specifications",
                     "production_data", "resource_assessment",
                     "om_contract", "equipment_warranty",
                     "service_agreement"}
         -> "Technical"
    [] doc_type \in {"environmental_assessment", "environmental_permit",
                     "environmental_study", "phase_i_esa"}
         -> "Environmental"
    [] doc_type \in {"financial_model", "audit_report", "tax_document",
                     "insurance_policy", "debt_agreement",
                     "tax_equity_documents", "appraisal"}
         -> "Financial"
    [] OTHER -> "None"

\* DocumentClassifier.CLASSIFICATION_KEYWORDS, in the order of the dict.
CLASSIFICATION_KEYWORDS ==
  <<
    [doc_type |-> "ppa", keywords |-> <<
      \* power purchase agreement
      <<"p","o","w","e","r"," ","p","u","r","c","h","a","s","e"," ","a","g","r","e","e","m",
        "e","n","t">>,
      \* ppa
      <<"p","p","a">>,
      \* offtaker
      <<"o","f","f","t","a","k","e","r">>,
      \* renewable energy credit
      <<"r","e","n","e","w","a","b","l","e"," ","e","n","e","r","g","y"," ","c","r","e","d",
        "i","t">>,
      \* rec
      <<"r","e","c">>,
      \* energy price
      <<"e","n","e","r","g","y"," ","p","r","i","c","e">>,
      \* $/mwh
      <<"$","/","m","w","h">>,
      \* delivery point
      <<"d","e","l","i","v","e","r","y"," ","p","o","i","n","t">>,
      \* contract capacity
      <<"c","o","n","t","r","a","c","t"," ","c","a","p","a","c","i","t","y">>
    >>],
    [doc_type |-> "interconnection_agreement", keywords |-> <<
      \* interconnection agreement
      <<"i","n","t","e","r","c","o","n","n","e","c","t","i","o","n"," ","a","g","r","e","e",
        "m","e","n","t">>,
      \* interconnection service
      <<"i","n","t","e","r","c","o","n","n","e","c","t","i","o","n"," ","s","e","r","v","i",
        "c","e">>,
      \* transmission provider
      <<"t","r","a","n","s","m","i","s","s","i","o","n"," ","p","r","o","v","i","d","e","r">>,
      \* network upgrade
      <<"n","e","t","w","o","r","k"," ","u","p","g","r","a","d","e">>,
      \* point of interconnection
      <<"p","o","i","n","t"," ","o","f"," ","i","n","t","e","r","c","o","n","n","e","c","t",
        "i","o","n">>,
      \* poi
      <<"p","o","i">>,
      \* system impact study
      <<"s","y","s","t","e","m"," ","i","m","p","a","c","t"," ","s","t","u","d","y">>
    >>],
    [doc_type |-> "land_lease", keywords |-> <<
      \* land lease
      <<"l","a","n","d"," ","l","e","a","s","e">>,
      \* lessor
      <<"l","e","s","s","o","r">>,
      \* lessee
      <<"l","e","s","s","e","e">>,
      \* rental payment
      <<"r","e","n","t","a","l"," ","p","a","y","m","e","n","t">>,
      \* lease term
      <<"l","e","a","s","e"," ","t","e","r","m">>,
      \* real property
      <<"r","e","a","l"," ","p","r","o","p","e","r","t","y">>,
      \* premises
      <<"p","r","e","m","i","s","e","s">>,
      \* lease agreement
      <<"l","e","a","s","e"," ","a","g","r","e","e","m","e","n","t">>
    >>],
    [doc_type |-> "environmental_permit", keywords |-> <<
      \* environmental permit
      <<"e","n","v","i","r","o","n","m","e","n","t","a","l"," ","p","e","r","m","i","t">>,
      \* air quality permit
      <<"a","i","r"," ","q","u","a","l","i","t","y"," ","p","e","r","m","i","t">>,
      \* water discharge permit
      <<"w","a","t","e","r"," ","d","i","s","c","h","a","r","g","e"," ","p","e","r","m","i",
        "t">>,
      \* epa
      <<"e","p","a">>,
      \* environmental protection
      <<"e","n","v","i","r","o","n","m","e","n","t","a","l"," ","p","r","o","t","e","c","t",
        "i","o","n">>,
      \* permit conditions
      <<"p","e","r","m","i","t"," ","c","o","n","d","i","t","i","o","n","s">>
    >>],
    [doc_type |-> "equipment_warranty", keywords |-> <<
      \* warranty
      <<"w","a","r","r","a","n","t","y">>,
      \* manufacturer
      <<"m","a","n","u","f","a","c","t","u","r","e","r">>,
      \* defects
      <<"d","e","f","e","c","t","s">>,
      \* warranty period
      <<"w","a","r","r","a","n","t","y"," ","p","e","r","i","o","d">>,
      \* performance guarantee
      <<"p","e","r","f","o","r","m","a","n","c","e"," ","g","u","a","r","a","n","t","e","e">>,
      \* warranty claim
      <<"w","a","r","r","a","n","t","y"," ","c","l","a","i","m">>
    >>],
    [doc_type |-> "om_contract", keywords |-> <<
      \* operation and maintenance
      <<"o","p","e","r","a","t","i","o","n"," ","a","n","d"," ","m","a","i","n","t","e","n",
        "a","n","c","e">>,
      \* o&m
      <<"o","&","m">>,
      \* maintenance services
      <<"m","a","i","n","t","e","n","a","n","c","e"," ","s","e","r","v","i","c","e","s">>,
      \* availability guarantee
      <<"a","v","a","i","l","a","b","i","l","i","t","y"," ","g","u","a","r","a","n","t","e",
        "e">>,
      \* maintenance schedule
      <<"m","a","i","n","t","e","n","a","n","c","e"," ","s","c","h","e","d","u","l","e">>
    >>],
    [doc_type |-> "financial_model", keywords |-> <<
      \* financial model
      <<"f","i","n","a","n","c","i","a","l"," ","m","o","d","e","l">>,
      \* irr
      <<"i","r","r">>,
      \* internal rate of return
      <<"i","n","t","e","r","n","a","l"," ","r","a","t","e"," ","o","f"," ","r","e","t","u",
        "r","n">>,
      \* npv
      <<"n","p","v">>,
      \* cash flow
      <<"c","a","s","h"," ","f","l","o","w">>,
      \* project finance
      <<"p","r","o","j","e","c","t"," ","f","i","n","a","n","c","e">>,
      \* pro forma
      <<"p","r","o"," ","f","o","r","m","a">>
    >>],
    [doc_type |-> "resource_assessment", keywords |-> <<
      \* resource assessment
      <<"r","e","s","o","u","r","c","e"," ","a","s","s","e","s","s","m","e","n","t">>,
      \* wind resource
      <<"w","i","n","d"," ","r","e","s","o","u","r","c","e">>,
      \* solar resource
      <<"s","o","l","a","r"," ","r","e","s","o","u","r","c","e">>,
      \* capacity factor
      <<"c","a","p","a","c","i","t","y"," ","f","a","c","t","o","r">>,
      \* p50
      <<"p","5","0">>,
      \* p90
      <<"p","9","0">>,
      \* energy yield
      <<"e","n","e","r","g","y"," ","y","i","e","l","d">>
    >>]
  >>

AllKeywordTypes == {CLASSIFICATION_KEYWORDS[i].doc_type :
                      i \in 1..Len(CLASSIFICATION_KEYWORDS)}

(***************************************************************************)
(* The documents classified in this model.  A text is a sequence of at    *)
(* most MaxLines of the lines below, joined by line breaks.                *)
(***************************************************************************)
MaxLines == 2

DocLines ==
  {"This Power Purchase Agreement sets the delivery point.",
   "Operation and maintenance with availability guarantee.",
   "The Lessor grants the Lessee a land lease.",
   "Energy price is $45/MWh.",
   "Quarterly minutes of the board.",
   "EPA notice on the warranty."}

Filenames ==
  {"PPA_Agreement.pdf",
   "scan_001.pdf",
   "O&M_Maintenance Services.pdf",
   ""}

\* The characters of a filename or line above.
Chars(s) ==
  CASE s = "PPA_Agreement.pdf" ->
         <<"P","P","A","_","A","g","r","e","e","m","e","n","t",".","p","d","f">>
    [] s = "scan_001.pdf" ->
         <<"s","c","a","n","_","0","0","1",".","p","d","f">>
    [] s = "O&M_Maintenance Services.pdf" ->
         <<"O","&","M","_","M","a","i","n","t","e","n","a","n","c","e"," ","S","e","r","v","i",
           "c","e","s",".","p","d","f">>
    [] s = "This Power Purchase Agreement sets the delivery point." ->
         <<"T","h","i","s"," ","P","o","w","e","r"," ","P","u","r","c","h","a","s","e"," ","A",
           "g","r","e","e","m","e","n","t"," ","s","e","t","s"," ","t","h","e"," ","d","e","l","i",
           "v","e","r","y"," ","p","o","i","n","t",".">>
    [] s = "Operation and maintenance with availability guarantee." ->
         <<"O","p","e","r","a","t","i","o","n"," ","a","n","d"," ","m","a","i","n","t","e","n",
           "a","n","c","e"," ","w","i","t","h"," ","a","v","a","i","l","a","b","i","l","i","t","y",
           " ","g","u","a","r","a","n","t","e","e",".">>
    [] s = "The Lessor grants the Lessee a land lease." ->
         <<"T","h","e"," ","L","e","s","s","o","r"," ","g","r","a","n","t","s"," ","t","h","e",
           " ","L","e","s","s","e","e"," ","a"," ","l","a","n","d"," ","l","e","a","s","e",".">>
    [] s = "Energy price is $45/MWh." ->
         <<"E","n","e","r","g","y"," ","p","r","i","c","e"," ","i","s"," ","$","4","5","/","M",
           "W","h",".">>
    [] s = "Quarterly minutes of the board." ->
         <<"Q","u","a","r","t","e","r","l","y"," ","m","i","n","u","t","e","s"," ","o","f"," ",
           "t","h","e"," ","b","o","a","r","d",".">>
    [] s = "EPA notice on the warranty." ->
         <<"E","P","A"," ","n","o","t","i","c","e"," ","o","n"," ","t","h","e"," ","w","a","r",
           "r","a","n","t","y",".">>
    [] OTHER -> <<>>

Texts == UNION {[1..n -> DocLines] : n \in 0..MaxLines}

\* The characters of the text whose lines are `lines`.
RECURSIVE JoinLines(_)
JoinLines(lines) ==
  IF Len(lines) = 0 THEN <<>>
  ELSE IF Len(lines) = 1 THEN Chars(lines[1])
  ELSE Chars(lines[1]) \o <<"\n">> \o JoinLines(Tail(lines))

(***************************************************************************)
(* DocumentClassifier.classify_by_keywords                                 *)
(***************************************************************************)
\* The inner loop, had it added 1 for every matched keyword, in the
\* filename or not.
RECURSIVE KeywordScoreUnweighted(_, _, _, _)
KeywordScoreUnweighted(keywords, i, combined_text, filename_lower) ==
  IF i = 0 THEN 0
  ELSE KeywordScoreUnweighted(keywords, i - 1, combined_text, filename_lower)
       + (IF Contains(combined_text, keywords[i]) THEN 1 ELSE 0)

\* The inner loop over one type's keywords: the score after the first i
\* keywords (+2 for a keyword found in the filename, +1 for one found in
\* the combined text only).
RECURSIVE KeywordScore(_, _, _, _)
KeywordScore(keywords, i, combined_text, filename_lower) ==
  IF i = 0 THEN 0
  ELSE KeywordScore(keywords, i - 1, combined_text, filename_lower)
       + (IF Contains(combined_text, keywords[i])
          THEN (IF Contains(filename_lower, keywords[i]) THEN 2 ELSE 1)
          ELSE 0)

\* matched_keywords after the loop.
MatchedKeywords(keywords, combined_text) ==
  Cardinality({i \in 1..Len(keywords) : Contains(combined_text, keywords[i])})

\* min(score / (len(keywords) * 1.5), 1.0)
NormalizedScore(score, nkeywords) == CapAtOne(Num(2 * score, 3 * nkeywords))

\* The dict `scores`: for each entry of CLASSIFICATION_KEYWORDS, in order,
\* its normalized score, or NoValue when no keyword of the type matched.
KeywordScores(text, filename) ==
  LET filename_lower == Lower(Chars(filename))
      combined_text  == filename_lower \o <<" ">> \o Lower(JoinLines(text))
  IN  [e \in 1..Len(CLASSIFICATION_KEYWORDS) |->
         LET keywords == CLASSIFICATION_KEYWORDS[e].keywords
         IN  IF MatchedKeywords(keywords, combined_text) > 0
             THEN NormalizedScore(
                    KeywordScore(keywords, Len(keywords), combined_text,
                                 filename_lower),
                    Len(keywords))
             ELSE NoValue]

\* max(scores, key=scores.get), had it kept the last of the keys with the
\* highest score instead of the first.
BestEntryLast(scores) ==
  LET present == {e \in DOMAIN scores : scores[e] # NoValue}
      best    == {e \in present :
                    \A o \in present : ~FGt(scores[o], scores[e])}
  IN  CHOOSE e \in best : \A o \in best : e >= o

\* max(scores, key=scores.get): the first key, in the dict's insertion
\* order, whose score no other key exceeds.
BestEntry(scores) ==
  LET present == {e \in DOMAIN scores : scores[e] # NoValue}
      best    == {e \in present :
                    \A o \in present : ~FGt(scores[o], scores[e])}
  IN  CHOOSE e \in best : \A o \in best : e <= o

\* A keyword pass that looks for keywords in the text alone, leaving the
\* filename out of combined_text.
classify_by_keywords_text_only(text, filename) ==
  LET scores == KeywordScores(text, "")
  IN  IF \E e \in DOMAIN scores : scores[e] # NoValue
      THEN LET b == BestEntry(scores)
           IN  [type |-> CLASSIFICATION_KEYWORDS[b].doc_type,
                confidence |-> scores[b]]
      ELSE [type |-> UNKNOWN, confidence |-> Num(0, 1)]

classify_by_keywords(text, filename) ==
  LET scores == KeywordScores(text, filename)
  IN  IF \E e \in DOMAIN scores : scores[e] # NoValue
      THEN LET b == BestEntry(scores)
           IN  [type |-> CLASSIFICATION_KEYWORDS[b].doc_type,
                confidence |-> scores[b]]
      ELSE [type |-> UNKNOWN, confidence |-> Num(0, 1)]

(***************************************************************************)
(* DocumentClassifier.classify_with_llm                                    *)
(***************************************************************************)
\* What self.llm.ainvoke can do: raise, or return a reply whose content,
\* after .strip().split('\n'), is a sequence of lines.
TypeLines == {"ppa", " PPA", "land_lease", "unknown", "contract"}
ConfidenceLines == {"0.0", "0.5", "0.7499", "0.75", " 0.9", "1.0", "1.5",
                    "-0.5", "nan", "inf", "high", ""}

LLMReplies ==
  {[kind |-> "raise", lines |-> <<>>]}
  \cup {[kind |-> "content", lines |-> <<t>>] : t \in TypeLines \cup {""}}
  \cup {[kind |-> "content", lines |-> <<t, c>>] :
          t \in TypeLines, c \in ConfidenceLines}
  \cup {[kind |-> "content", lines |-> <<"ppa", "0.5", "Reasoning: a PPA">>]}

NoReply == [kind |-> "none", lines |-> <<>>]

\* result[0].strip().lower()
StripLower(line) ==
  CASE line = " PPA" -> "ppa"
    [] OTHER -> line

ValueError == [k |-> "ValueError", n |-> 0, d |-> 1]

\* float(result[1].strip())
ParseFloat(line) ==
  CASE line = "0.0"    -> Num(0, 1)
    [] line = "0.5"    -> Num(5, 10)
    [] line = "0.7499" -> Num(7499, 10000)
    [] line = "0.75"   -> Num(75, 100)
    [] line = " 0.9"   -> Num(9, 10)
    [] line = "1.0"    -> Num(1, 1)
    [] line = "1.5"    -> Num(15, 10)
    [] line = "-0.5"   -> Num(-5, 10)
    [] line = "nan"    -> NaN
    [] line = "inf"    -> Inf
    [] OTHER           -> ValueError

\* Lines 246-277, the body of the try: its value, or the exception it raises.
\* float() of a non-numeric line raises ValueError before DocumentType() is
\* tried; the ValueError of DocumentType() is caught inside (lines 275-277);
\* with fewer than two lines the body falls through to line 283.
Returned(type, confidence) ==
  [exc |-> "none", type |-> type, confidence |-> confidence]
Raising(exception) ==
  [exc |-> exception, type |-> UNKNOWN, confidence |-> Num(0, 1)]

LLMTryBody(reply) ==
  IF reply.kind = "raise"
  THEN Raising("Exception")                 \* self.llm.ainvoke raised
  ELSE LET result == reply.lines
       IN  IF Len(result) >= 2
           THEN LET doc_type_str == StripLower(result[1])
                    confidence   == ParseFloat(result[2])
                IN  IF confidence = ValueError
                    THEN Raising("ValueError")
                    ELSE IF doc_type_str \in DocumentTypeValues
                    THEN Returned(doc_type_str, confidence)
                    ELSE Returned(UNKNOWN, Num(0, 1))
           ELSE Returned(UNKNOWN, Num(0, 1))

\* classify_with_llm without its `except Exception`: what the body raises
\* leaves the function.
classify_with_llm_uncaught(reply) == LLMTryBody(reply)

\* `except Exception` (lines 279-281) turns every exception of the body
\* into (UNKNOWN, 0.0).
classify_with_llm(reply) ==
  LET body == LLMTryBody(reply)
  IN  IF body.exc # "none"
      THEN Returned(UNKNOWN, Num(0, 1))
      ELSE body

(***************************************************************************)
(* DocumentClassifier.classify_document                                    *)
(***************************************************************************)
\* Lines 328-337: the returned dict.
ClassificationResult(doc_type, confidence, method) ==
  [document_type         |-> doc_type,
   category              |-> CategoryOf(doc_type),
   confidence            |-> Round3(confidence),
   classification_method |-> method,
   requires_review       |-> FLt(confidence, MIN_CLASSIFICATION_CONFIDENCE)]

\* Lines 314-322: the choice between the LLM and the keyword result.
\* The comparison of line 315 with >= in place of >.
ChooseBestOrEqual(kw, llm) ==
  IF FGe(llm.confidence, kw.confidence)
  THEN ClassificationResult(llm.type, llm.confidence, "llm")
  ELSE ClassificationResult(kw.type, kw.confidence, "keywords")

ChooseBest(kw, llm) ==
  IF FGt(llm.confidence, kw.confidence)
  THEN ClassificationResult(llm.type, llm.confidence, "llm")
  ELSE ClassificationResult(kw.type, kw.confidence, "keywords")

\* classify_document, had it asked the language model whenever use_llm is
\* set, without looking at the keyword confidence first.
ClassifyStartAskingFirst ==
  /\ c_pc = "start"
  /\ LET kw == classify_by_keywords(c_text, c_filename)
     IN  /\ c_kw' = kw
         /\ IF c_use_llm
            THEN /\ c_pc' = "await_llm"
                 /\ c_llm_calls' = c_llm_calls + 1
                 /\ c_result' = c_result
            ELSE /\ c_result' = ClassificationResult(kw.type, kw.confidence,
                                                     "keywords")
                 /\ c_pc' = "done"
                 /\ c_llm_calls' = c_llm_calls
  /\ UNCHANGED <<c_filename, c_text, c_use_llm, c_reply, c_llm>>

\* classify_document up to its only suspension point, the awaited LLM call;
\* without that call it runs to its return.
ClassifyStart ==
  /\ c_pc = "start"
  /\ LET kw == classify_by_keywords(c_text, c_filename)
     IN  /\ c_kw' = kw
         /\ IF FGe(kw.confidence, MIN_CLASSIFICATION_CONFIDENCE)
            THEN /\ c_result' = ClassificationResult(kw.type, kw.confidence,
                                                     "keywords")
                 /\ c_pc' = "done"
                 /\ c_llm_calls' = c_llm_calls
            ELSE IF c_use_llm
            THEN /\ c_pc' = "await_llm"
                 /\ c_llm_calls' = c_llm_calls + 1
                 /\ c_result' = c_result
            ELSE /\ c_result' = ClassificationResult(kw.type, kw.confidence,
                                                     "keywords")
                 /\ c_pc' = "done"
                 /\ c_llm_calls' = c_llm_calls
  /\ UNCHANGED <<c_filename, c_text, c_use_llm, c_reply, c_llm>>

\* classify_document from the LLM call's outcome to its return.  Nothing in
\* classify_document catches: an exception leaving classify_with_llm would
\* leave classify_document too.
Raised == [raised |-> TRUE]

ClassifyResume(reply) ==
  /\ c_pc = "await_llm"
  /\ c_reply' = reply
  /\ LET llm == classify_with_llm(reply)
     IN  IF llm.exc # "none"
         THEN /\ c_llm' = c_llm
              /\ c_result' = Raised
         ELSE /\ c_llm' = [type |-> llm.type, confidence |-> llm.confidence]
              /\ c_result' = ChooseBest(c_kw, llm)
  /\ c_pc' = "done"
  /\ UNCHANGED <<c_filename, c_text, c_use_llm, c_kw, c_llm_calls>>

(***************************************************************************)
(* Python values, as far as the term extractor distinguishes them.         *)
(***************************************************************************)
PyValue(t, n, d, s, l) == [t |-> t, n |-> n, d |-> d, s |-> s, l |-> l]
PyInt(n)   == PyValue("int", n, 1, "", <<>>)
PyFloat(x) == PyValue("float", x.n, x.d, "", <<>>)      \* x a Num(n, d)
PyStr(s)   == PyValue("str", 0, 1, s, <<>>)
PyBool(b)  == PyValue("bool", IF b THEN 1 ELSE 0, 1, "", <<>>)
PyNone     == PyValue("NoneType", 0, 1, "", <<>>)
PyList(l)  == PyValue("list", 0, 1, "", l)             \* l: strings

\* bool(v)
Truthy(v) ==
  CASE v.t = "int"      -> v.n # 0
    [] v.t = "float"    -> v.n # 0
    [] v.t = "str"      -> v.s # ""
    [] v.t = "bool"     -> v.n = 1
    [] v.t = "NoneType" -> FALSE
    [] v.t = "list"     -> Len(v.l) > 0

\* Whether `v < 10` and the like are defined for v: an int, a float or a
\* bool; for a str, a list or a dict the comparison raises TypeError.
IsNumber(v) == v.t \in {"int", "float", "bool"}

\* The value of a number as a float (True is 1, False is 0).
AsFloat(v) == Num(v.n, v.d)

\* str() of a float with at most two decimals, as repr gives it.
FloatStr(x) ==
  LET h == (100 * x.n) \div x.d
      w == h \div 100
      f == h % 100
  IN  ToString(w) \o "." \o
      (IF f % 10 = 0 THEN ToString(f \div 10)
       ELSE IF f < 10 THEN "0" \o ToString(f) ELSE ToString(f))

\* What an f-string writes for {v}.
Format(v) ==
  CASE v.t = "int"      -> ToString(v.n)
    [] v.t = "float"    -> FloatStr(Num(v.n, v.d))
    [] v.t = "str"      -> v.s
    [] v.t = "bool"     -> IF v.n = 1 THEN "True" ELSE "False"
    [] v.t = "NoneType" -> "None"
    [] OTHER            -> "[...]"

\* A dict from its (key, value) pairs.
DictOf(pairs) ==
  LET items == pairs
  IN  [k \in {p[1] : p \in items} |-> (CHOOSE p \in items : p[1] = k)[2]]

EmptyDict == DictOf({})

\* d.get(key)
Get(d, key) == IF key \in DOMAIN d THEN d[key] ELSE PyNone

\* {**a, **b}
\* {**b, **a}: the merge with the first dict taking precedence.
MergeDictsFirstWins(a, b) ==
  [k \in DOMAIN a \cup DOMAIN b |-> IF k \in DOMAIN a THEN a[k] ELSE b[k]]

MergeDicts(a, b) ==
  [k \in DOMAIN a \cup DOMAIN b |-> IF k \in DOMAIN b THEN b[k] ELSE a[k]]

\* d[key] = value
SetItem(d, key, value) ==
  [k \in DOMAIN d \cup {key} |-> IF k = key THEN value ELSE d[k]]

(***************************************************************************)
(* ppa_extractor.py: the texts extracted from in this model.  A text is a *)
(* sequence of at most MaxPPALines of the lines below, joined by line     *)
(* breaks.                                                                 *)
(***************************************************************************)
MaxPPALines == 2

PPALines ==
  {"Seller: SunCo Energy LLC",
   "Buyer: City Power Company",
   "This Agreement has a term of 7 years.",
   "Delivery for a period of 25 years at $45 per MWh.",
   "The initial term of 0 years applies.",
   "Buyer is entitled to all RECs at $18.50/MWh."}

PPATexts == UNION {[1..n -> PPALines] : n \in 0..MaxPPALines}

NoMatches ==
  [price |-> <<>>, capacity |-> <<>>, term |-> <<>>, dates |-> <<>>,
   escalation |-> <<>>, rec_mention |-> FALSE, rec_transfer |-> FALSE,
   seller |-> <<>>, buyer |-> <<>>]

\* What the patterns of extract_with_regex (lines 133-178) find in one line:
\* the captured groups of re.findall / re.search, in order.  No match of
\* these patterns spans two of the lines above, so the matches in a text are
\* those of its lines, in order.
PatternMatches(line) ==
  CASE line = "Seller: SunCo Energy LLC" ->
         [NoMatches EXCEPT !.seller = <<"SunCo Energy LLC">>]
    [] line = "Buyer: City Power Company" ->
         [NoMatches EXCEPT !.buyer = <<"City Power Company">>]
    [] line = "This Agreement has a term of 7 years." ->
         [NoMatches EXCEPT !.term = <<"7">>]
    [] line = "Delivery for a period of 25 years at $45 per MWh." ->
         [NoMatches EXCEPT !.term = <<"25">>, !.price = <<"45">>]
    [] line = "The initial term of 0 years applies." ->
         [NoMatches EXCEPT !.term = <<"0">>]
    [] line = "Buyer is entitled to all RECs at $18.50/MWh." ->
         [NoMatches EXCEPT !.price = <<"18.50">>, !.rec_mention = TRUE,
                           !.rec_transfer = TRUE]
    [] OTHER -> NoMatches

\* re.findall over the whole text for one pattern.
RECURSIVE FindAll(_, _)
FindAll(text, pattern) ==
  IF Len(text) = 0 THEN <<>>
  ELSE PatternMatches(Head(text))[pattern] \o FindAll(Tail(text), pattern)

\* re.search over the whole text for one of the two REC patterns.
Search(text, pattern) ==
  \E i \in 1..Len(text) : PatternMatches(text[i])[pattern]

\* int(s) and float(s) of a captured numeral.
NumeralValue(s) ==
  CASE s = "0"     -> Num(0, 1)
    [] s = "7"     -> Num(7, 1)
    [] s = "15"    -> Num(15, 1)
    [] s = "25"    -> Num(25, 1)
    [] s = "45"    -> Num(45, 1)
    [] s = "45.00" -> Num(4500, 100)
    [] s = "18.50" -> Num(1850, 100)

(***************************************************************************)
(* PPAExtractor.extract_with_regex                                         *)
(***************************************************************************)
extract_with_regex(text) ==
  LET price_matches      == FindAll(text, "price")
      capacity_matches   == FindAll(text, "capacity")
      term_matches       == FindAll(text, "term")
      dates              == FindAll(text, "dates")
      escalation_matches == FindAll(text, "escalation")
      seller_match       == FindAll(text, "seller")
      buyer_match        == FindAll(text, "buyer")
  IN  DictOf(
        (IF Len(price_matches) > 0
         THEN {<<"energy_price", PyStr("$" \o price_matches[1] \o "/MWh")>>}
         ELSE {})
        \cup
        (IF Len(capacity_matches) > 0
         THEN {<<"contract_capacity_mw",
                 PyFloat(NumeralValue(capacity_matches[1]))>>}
         ELSE {})
        \cup
        (IF Len(term_matches) > 0
         THEN {<<"delivery_term_years",
                 PyInt(NumeralValue(term_matches[1]).n)>>}      \* int()
         ELSE {})
        \cup
        (IF Len(dates) > 0
         THEN {<<"extracted_dates",
                 PyList(SubSeq(dates, 1, IF Len(dates) < 5 THEN Len(dates)
                                         ELSE 5))>>}
         ELSE {})
        \cup
        (IF Len(escalation_matches) > 0
         THEN {<<"price_escalation",
                 PyStr(escalation_matches[1] \o "% per year")>>}
         ELSE {})
        \cup
        (IF Search(text, "rec_mention") /\ Search(text, "rec_transfer")
         THEN {<<"rec_transfer", PyBool(TRUE)>>}
         ELSE {})
        \cup
        (IF Len(seller_match) > 0
         THEN {<<"seller", PyStr(seller_match[1])>>}
         ELSE {})
        \cup
        (IF Len(buyer_match) > 0
         THEN {<<"buyer", PyStr(buyer_match[1])>>}
         ELSE {}))

(***************************************************************************)
(* PPAExtractor.extract_with_llm                                           *)
(***************************************************************************)
\* What self.llm.ainvoke can do: raise, or return a reply whose content is
\* either no JSON text or the JSON text of a value.  json.loads gives a dict
\* for an object, a list for an array, an int, float, str, bool or None for
\* the other values.
FullObject ==
  DictOf({<<"seller", PyStr("SunCo Energy LLC")>>,
          <<"buyer", PyStr("City Power Company")>>,
          <<"energy_price", PyStr("$45.00/MWh")>>,
          <<"delivery_term_years", PyInt(20)>>,
          <<"commercial_operation_date", PyStr("2026-06-30")>>,
          <<"delivery_point", PyStr("Node A")>>,
          <<"rec_transfer", PyBool(TRUE)>>})

\* JSON has no way to leave a key out of an object but to leave it out.
Absent == PyValue("absent", 0, 1, "", <<>>)

ReplyValues ==
  [delivery_term_years |->
     {PyInt(7), PyInt(0), PyInt(10), PyStr("7"), PyNone, Absent},
   energy_price |->
     {PyStr("$15/MWh"), PyStr("Fixed price"), PyInt(45), Absent},
   rec_transfer |-> {PyBool(FALSE), PyNone, Absent},
   seller |-> {PyStr(""), Absent},
   buyer |-> {Absent},
   commercial_operation_date |-> {Absent},
   delivery_point |-> {Absent},
   red_flags |-> {PyList(<<"Buyer may terminate for convenience">>)}]

\* The objects of the replies: one of two objects, with at most
\* MaxReplyChanges keys set to other values or left out.
MaxReplyChanges == 2

\* The functions that give each key of K one of its values.
RECURSIVE ChangesOf(_)
ChangesOf(K) ==
  IF K = {} THEN {EmptyDict}
  ELSE LET k == CHOOSE x \in K : TRUE
       IN  {SetItem(c, k, v) : c \in ChangesOf(K \ {k}), v \in ReplyValues[k]}

ReplyChanges ==
  UNION {ChangesOf(K) : K \in {S \in SUBSET DOMAIN ReplyValues :
                                 Cardinality(S) <= MaxReplyChanges}}

Override(base, change) ==
  [k \in {x \in DOMAIN base \cup DOMAIN change :
            ~(x \in DOMAIN change /\ change[x] = Absent)} |->
     IF k \in DOMAIN change THEN change[k] ELSE base[k]]

ReplyObjects ==
  {Override(base, change) :
     base \in {EmptyDict, FullObject},
     change \in ReplyChanges}

\* A reply: the call raised, or returned content that is no JSON text, or
\* the JSON text of an object (with the dict json.loads gives for it), of an
\* array, of a number or of null.
ExtractReply(kind, json, object) ==
  [kind |-> kind, json |-> json, object |-> object]

ExtractReplies ==
  {ExtractReply("raise", "", EmptyDict)}
  \cup {ExtractReply("content", j, EmptyDict) :
          j \in {"not JSON", "array", "number", "null"}}
  \cup {ExtractReply("content", "object", o) : o \in ReplyObjects}

NotJSONText == "I could not find any terms."

\* Lines 201-223.  The value returned: json.loads(response.content), the
\* raw_response dict on JSONDecodeError, {} on any other exception.  What
\* matters of a value that is no dict is that it is none.
extract_with_llm(reply) ==
  IF reply.kind = "raise"
  THEN [t |-> "dict", dict |-> EmptyDict]
  ELSE IF reply.json = "not JSON"
  THEN [t |-> "dict",
        dict |-> DictOf({<<"raw_response", PyStr(NotJSONText)>>})]
  ELSE IF reply.json = "object"
  THEN [t |-> "dict", dict |-> reply.object]
  ELSE [t |-> IF reply.json = "array" THEN "list"
              ELSE IF reply.json = "number" THEN "int" ELSE "NoneType",
        dict |-> EmptyDict]

(***************************************************************************)
(* PPAExtractor.identify_red_flags                                         *)
(***************************************************************************)
\* re.search(r'\$?(\d+\.?\d*)', price_str): the numeral captured, or none.
FirstNumeral(price_str) ==
  CASE price_str = "$45/MWh"    -> <<"45">>
    [] price_str = "$18.50/MWh" -> <<"18.50">>
    [] price_str = "$45.00/MWh" -> <<"45.00">>
    [] price_str = "$15/MWh"    -> <<"15">>
    [] OTHER                    -> <<>>

critical_terms ==
  <<"seller", "buyer", "energy_price", "delivery_term_years",
    "commercial_operation_date", "delivery_point">>

\* ', '.join(names)
RECURSIVE JoinComma(_)
JoinComma(names) ==
  IF Len(names) = 0 THEN ""
  ELSE IF Len(names) = 1 THEN names[1]
  ELSE names[1] \o ", " \o JoinComma(Tail(names))

\* [x for x in seq if keep(x)], for the critical terms.
RECURSIVE MissingTerms(_, _)
MissingTerms(terms, names) ==
  IF Len(names) = 0 THEN <<>>
  ELSE (IF ~Truthy(Get(terms, Head(names))) THEN <<Head(names)>> ELSE <<>>)
       \o MissingTerms(terms, Tail(names))

ShortTermFlag(years) ==
  "Short contract term (" \o Format(years) \o " years) - "
  \o "may impact project financing"

LowPriceFlag(price) ==
  "Low energy price ($" \o FloatStr(price) \o "/MWh) - verify market conditions"

RecFlag == "RECs not transferred to buyer - impacts project economics"

MissingFlag(missing_terms) ==
  "Missing critical terms: " \o JoinComma(missing_terms)

\* Lines 238-243: the flags of the contract-duration check, or TypeError
\* when `terms['delivery_term_years'] < 10` is not defined.
DurationCheck(terms) ==
  LET years == Get(terms, "delivery_term_years")
  IN  IF Truthy(years)
      THEN IF ~IsNumber(years)
           THEN [exc |-> "TypeError", flags |-> <<>>]
           ELSE IF FLt(AsFloat(years), Num(10, 1))
           THEN [exc |-> "none", flags |-> <<ShortTermFlag(years)>>]
           ELSE [exc |-> "none", flags |-> <<>>]
      ELSE [exc |-> "none", flags |-> <<>>]

\* Lines 246-255: the flags of the pricing check, or TypeError when
\* re.search is given something that is no string.
PricingCheck(terms) ==
  LET price_str == Get(terms, "energy_price")
  IN  IF Truthy(price_str)
      THEN IF price_str.t # "str"
           THEN [exc |-> "TypeError", flags |-> <<>>]
           ELSE LET price_match == FirstNumeral(price_str.s)
                IN  IF Len(price_match) > 0
                       /\ FLt(NumeralValue(price_match[1]), Num(20, 1))
                    THEN [exc |-> "none",
                          flags |-> <<LowPriceFlag(
                                        NumeralValue(price_match[1]))>>]
                    ELSE [exc |-> "none", flags |-> <<>>]
      ELSE [exc |-> "none", flags |-> <<>>]

\* Lines 258-259.
RecCheck(terms) ==
  LET rec_transfer == Get(terms, "rec_transfer")
  IN  IF rec_transfer.t = "bool" /\ rec_transfer.n = 0    \* `is False`
      THEN <<RecFlag>>
      ELSE <<>>

\* Lines 262-269.
MissingCheck(terms) ==
  LET missing_terms == MissingTerms(terms, critical_terms)
  IN  IF Len(missing_terms) > 0 THEN <<MissingFlag(missing_terms)>> ELSE <<>>

identify_red_flags(terms) ==
  LET duration == DurationCheck(terms)
      pricing  == PricingCheck(terms)
  IN  IF duration.exc # "none" THEN duration
      ELSE IF pricing.exc # "none" THEN pricing
      ELSE [exc |-> "none",
            flags |-> duration.flags \o pricing.flags \o RecCheck(terms)
                      \o MissingCheck(terms)]

(***************************************************************************)
(* class PPATerms, and PPAExtractor.extract                                *)
(***************************************************************************)
\* The fields of PPATerms with their declared types (all Optional but the
\* two lists).
PPATermsFields ==
  [seller |-> "str", buyer |-> "str", project_name |-> "str",
   project_location |-> "str", technology_type |-> "str",
   contract_capacity_mw |-> "float", effective_date |-> "str",
   commercial_operation_date |-> "str", delivery_term_start |-> "str",
   delivery_term_years |-> "int", contract_end_date |-> "str",
   energy_price |-> "str", price_escalation |-> "str",
   capacity_payment |-> "str", delivery_point |-> "str",
   delivery_obligations |-> "str", annual_contract_quantity |-> "float",
   rec_transfer |-> "bool", environmental_attributes |-> "str",
   guaranteed_capacity_factor |-> "float",
   performance_requirements |-> "str", liquidated_damages |-> "str",
   curtailment_provisions |-> "str", curtailment_compensation |-> "str",
   seller_collateral |-> "str", buyer_collateral |-> "str",
   termination_provisions |-> "str", early_termination_fee |-> "str",
   force_majeure |-> "str", change_in_law |-> "str",
   dispatch_rights |-> "str", red_flags |-> "list", key_risks |-> "list"]

\* Whether PPATerms(**combined_terms) accepts the values given for its
\* fields (keys that are no fields are ignored): None for an Optional field,
\* a value of the declared type, an int for a float.
Validates(combined_terms) ==
  \A k \in DOMAIN combined_terms \cap DOMAIN PPATermsFields :
    LET v == combined_terms[k]
        declared == PPATermsFields[k]
    IN  \/ v.t = declared
        \/ v.t = "NoneType" /\ declared # "list"
        \/ v.t = "int" /\ declared = "float"

\* The PPATerms object returned, by either path of lines 301-312: the fields
\* given in combined_terms; the other fields keep their defaults.
PPATermsOf(combined_terms) ==
  [k \in DOMAIN combined_terms \cap DOMAIN PPATermsFields |->
     combined_terms[k]]

\* The end of extract, had it kept a red_flags entry of the merged terms
\* (combined_terms.setdefault('red_flags', red_flags)).
ExtractFinishKeepingFlags(combined_terms) ==
  LET red_flags == identify_red_flags(combined_terms)
  IN  IF red_flags.exc # "none"
      THEN [raised |-> TRUE, exc |-> red_flags.exc, via |-> "",
            terms |-> EmptyDict]
      ELSE LET with_flags ==
                 IF "red_flags" \in DOMAIN combined_terms THEN combined_terms
                 ELSE SetItem(combined_terms, "red_flags",
                              PyList(red_flags.flags))
           IN  [raised |-> FALSE, exc |-> "none",
                via |-> IF Validates(with_flags) THEN "validated"
                        ELSE "partial",
                terms |-> PPATermsOf(with_flags)]

\* Lines 296-312, from the merged terms to the end of extract.  Nothing in
\* extract catches an exception of identify_red_flags.
ExtractFinish(combined_terms) ==
  LET red_flags == identify_red_flags(combined_terms)
  IN  IF red_flags.exc # "none"
      THEN [raised |-> TRUE, exc |-> red_flags.exc, via |-> "",
            terms |-> EmptyDict]
      ELSE LET with_flags == SetItem(combined_terms, "red_flags",
                                     PyList(red_flags.flags))
           IN  [raised |-> FALSE, exc |-> "none",
                via |-> IF Validates(with_flags) THEN "validated"
                        ELSE "partial",
                terms |-> PPATermsOf(with_flags)]

\* extract up to its only suspension point, the awaited LLM call; without
\* that call it runs to its end.
ExtractStart ==
  /\ e_pc = "start"
  /\ LET regex_terms == extract_with_regex(e_text)
     IN  /\ e_regex' = regex_terms
         /\ IF e_use_llm /\ e_api_key
            THEN /\ e_pc' = "await_llm"
                 /\ e_llm_calls' = e_llm_calls + 1
                 /\ UNCHANGED <<e_combined, e_result>>
            ELSE /\ e_pc' = "done"
                 /\ e_combined' = regex_terms
                 /\ e_result' = ExtractFinish(regex_terms)
                 /\ e_llm_calls' = e_llm_calls
  /\ UNCHANGED <<e_text, e_use_llm, e_api_key, e_reply>>

\* extract from the LLM call's outcome to its end.  {**regex_terms,
\* **llm_terms} raises TypeError when llm_terms is no mapping.
ExtractResume(reply) ==
  /\ e_pc = "await_llm"
  /\ e_reply' = reply
  /\ LET llm_terms == extract_with_llm(reply)
     IN  IF llm_terms.t # "dict"
         THEN /\ e_combined' = e_combined
              /\ e_result' = [raised |-> TRUE, exc |-> "TypeError",
                              via |-> "", terms |-> EmptyDict]
         ELSE /\ e_combined' = MergeDicts(e_regex, llm_terms.dict)
              /\ e_result' = ExtractFinish(MergeDicts(e_regex, llm_terms.dict))
  /\ e_pc' = "done"
  /\ UNCHANGED <<e_text, e_use_llm, e_api_key, e_regex, e_llm_calls>>

NoExtractReply == ExtractReply("none", "", EmptyDict)

(***************************************************************************)
(* qa_system.py: DocumentQASystem.                                         *)
(*                                                                         *)
(* The calls run as coroutines on one event loop: a call runs without      *)
(* interruption from one awaited call to the next.  The only awaited calls *)
(* are embeddings.aembed_query and llm.ainvoke; index.upsert, index.delete *)
(* and index.query are plain calls.  Each action below is one such         *)
(* uninterrupted stretch of one call.  self.vector_store is None           *)
(* throughout (nothing assigns it after line 48).                          *)
(***************************************************************************)
Tasks == {"t1", "t2"}

\* The number of calls begun in one behaviour.
MaxCalls == 3

\* A document is split into at most MaxChunks chunks.
MaxChunks == 2

DocumentIds == {"doc-1", "doc-2"}

\* The metadata a caller supplies with a document.
CallerMetadata(document_id) ==
  IF document_id = "doc-1"
  THEN [filename |-> "ppa.pdf", document_type |-> "ppa", project_id |-> "p1"]
  ELSE [filename |-> "lease.pdf", document_type |-> "land_lease",
        project_id |-> "p2"]

NoMetadata == [filename |-> "", document_type |-> "", project_id |-> ""]

\* The relevance scores index.query gives its matches: cosine similarities.
Scores == {Num(9, 10), Num(-2, 10)}

\* The arguments of answer_question: project_id (None is ""),
\* document_types (None is the empty list) and max_sources.
QuestionProjects == {"", "p1"}
QuestionTypes == {<<>>, <<"land_lease">>}
MaxSourcesChoices == {1, 2}

\* batch_size = 100 (line 160)
batch_size == 100

NoInformationAnswer ==
  "I don't have enough information in the data room to answer this question. Please ensure the relevant documents have been uploaded and indexed."

ErrorAnswerPrefix == "An error occurred while processing your question: "

\* str(e) of the exception a failing llm.ainvoke raises.
LLMErrorText == "Connection error."

\* response.content of a successful llm.ainvoke.
LLMAnswerText == "The PPA term is 20 years [Source 1]."

(***************************************************************************)
(* The vector store (the Pinecone index), as the set of its vectors.       *)
(***************************************************************************)
\* Lines 131-157: the vector upserted for chunk i of the n chunks of a
\* document.  Its id is f"{document_id}_{chunk_index}", here the pair.
\* The vector of chunk i, had the chunks been numbered from 1
\* (enumerate(chunks, 1)) instead of from 0.
VectorOfCountingFromOne(document_id, metadata, i, n) ==
  [id            |-> <<document_id, i>>,
   document_id   |-> document_id,
   chunk_index   |-> i + 1,
   total_chunks  |-> n,
   filename      |-> metadata.filename,
   document_type |-> metadata.document_type,
   project_id    |-> metadata.project_id]

VectorOf(document_id, metadata, i, n) ==
  [id            |-> <<document_id, i>>,
   document_id   |-> document_id,
   chunk_index   |-> i,
   total_chunks  |-> n,
   filename      |-> metadata.filename,
   document_type |-> metadata.document_type,
   project_id    |-> metadata.project_id]

\* index.upsert(vectors=batch): a vector replaces the one with its id.
Upsert(store, batch) ==
  {v \in store : \A b \in batch : b.id # v.id} \cup batch

\* A delete without the document_id filter.
DeleteEverything(store, document_id) == {}

\* index.delete(filter={"document_id": document_id})
DeleteByDocument(store, document_id) ==
  {v \in store : v.document_id # document_id}

\* The metadata filter of answer_question (lines 257-261) applied to a
\* vector: project_id must be equal, document_type must be in the list.
MatchesFilter(v, project_id, document_types) ==
  /\ project_id # "" => v.project_id = project_id
  /\ Len(document_types) > 0 =>
       \E j \in 1..Len(document_types) : v.document_type = document_types[j]

\* index.query(vector, top_k, filter): the top_k nearest of the vectors that
\* pass the filter (all of them when there are no more), nearest first.
\* Which vectors are nearest, and their scores, is up to the embeddings.
RECURSIVE Matches(_, _, _)
Matches(k, passing, scores) ==
  IF k = 0 \/ passing = {} THEN {<<>>}
  ELSE UNION {{<<[vector |-> v, score |-> s]>> \o rest :
                 rest \in Matches(k - 1, passing \ {v},
                                  {r \in scores : FGe(s, r)})} :
              v \in passing, s \in scores}

QueryResults(store, top_k, project_id, document_types) ==
  Matches(top_k,
          {v \in store : MatchesFilter(v, project_id, document_types)},
          Scores)

(***************************************************************************)
(* The calls.                                                              *)
(***************************************************************************)
\* q_last when the last step was no delete_document_index call.
NoDelete == [document_id |-> "", deleted |-> FALSE, repeat |-> FALSE]

NoReturn ==
  [kind |-> "none", count |-> 0, answer |-> "", sources |-> <<>>,
   confidence |-> Num(0, 1)]

\* chunks is the local of answer_question of that name, kept while the
\* call waits for llm.ainvoke.  overlapped is kept of a
\* delete_document_index call: whether an index_document call for the same
\* document was waiting for an embedding when it ran.
IdleTask ==
  [op |-> "none", pc |-> "idle", document_id |-> "", metadata |-> NoMetadata,
   n |-> 0, i |-> 0, project_id |-> "", document_types |-> <<>>,
   max_sources |-> 0, retrieved |-> 0, chunks |-> <<>>, sources |-> <<>>,
   llm_calls |-> 0,
   embed_failed |-> FALSE, store_failed |-> FALSE, llm_failed |-> FALSE,
   no_index |-> FALSE, overlapped |-> FALSE, ret |-> NoReturn]

\* A call returns a chunk count, returns an answer, or raises.
ReturnCount(n) == [NoReturn EXCEPT !.kind = "returned", !.count = n]
ReturnNone == [NoReturn EXCEPT !.kind = "returned"]
Raise == [NoReturn EXCEPT !.kind = "raised"]
ReturnAnswer(answer, sources, confidence) ==
  [NoReturn EXCEPT !.kind = "returned", !.answer = answer,
                   !.sources = sources, !.confidence = confidence]

CanBegin(t) == q_task[t].pc = "idle" /\ q_calls < MaxCalls

(***************************************************************************)
(* DocumentQASystem.index_document                                         *)
(***************************************************************************)
\* The batches of lines 160-163, as sets of vectors: batch b holds the
\* chunks b * batch_size .. b * batch_size + batch_size - 1.
NumBatches(n) == (n + batch_size - 1) \div batch_size

Batch(document_id, metadata, n, b) ==
  {VectorOf(document_id, metadata, i, n) :
     i \in {j \in 0..(n - 1) : j \div batch_size = b}}

\* The store after the first k batches were upserted.
RECURSIVE UpsertBatches(_, _, _, _, _)
UpsertBatches(store, document_id, metadata, n, k) ==
  IF k = 0 THEN store
  ELSE Upsert(UpsertBatches(store, document_id, metadata, n, k - 1),
              Batch(document_id, metadata, n, k - 1))

\* The upsert loop, had it awaited after its first batch: the first
\* batch is upserted and the call waits once more; when it resumes, the
\* other batches are upserted.
IndexUpsertAwaitingBetweenBatches(t) ==
  LET c == q_task[t]
      Rest(first) == UNION {Batch(c.document_id, c.metadata, c.n, b) :
                              b \in first..(NumBatches(c.n) - 1)}
  IN  IF c.i < c.n /\ NumBatches(c.n) > 1
      THEN /\ q_store' = Upsert(q_store,
                                Batch(c.document_id, c.metadata, c.n, 0))
           /\ q_task' = [q_task EXCEPT ![t] = [c EXCEPT !.i = c.n]]
      ELSE /\ q_store' = Upsert(q_store,
                                Rest(IF c.i = c.n THEN 1 ELSE 0))
           /\ q_task' = [q_task EXCEPT ![t] =
                [c EXCEPT !.pc = "idle", !.i = c.n,
                          !.ret = ReturnCount(c.n)]]

\* Lines 159-167 and 169-171: the upsert loop, which does not await.  Every
\* upsert may raise; the exception leaves index_document, with the batches
\* upserted before it in the store.
IndexUpsertAll(t) ==
  LET c == q_task[t]
  IN  \E k \in 0..NumBatches(c.n) :
        /\ q_store' = UpsertBatches(q_store, c.document_id, c.metadata,
                                    c.n, k)
        /\ q_task' = [q_task EXCEPT ![t] =
             [c EXCEPT !.pc = "idle", !.i = c.n,
                       !.store_failed = (k < NumBatches(c.n)),
                       !.ret = IF k < NumBatches(c.n) THEN Raise
                               ELSE ReturnCount(c.n)]]

\* index_document from its call to its first await, or to its end when it
\* awaits nothing: with no index (line 145) and with no chunks.
IndexBegin(t, document_id, n, metadata) ==
  /\ CanBegin(t)
  /\ q_calls' = q_calls + 1
  /\ q_last' = NoDelete
  /\ LET c == [IdleTask EXCEPT !.op = "index", !.document_id = document_id,
                               !.metadata = metadata, !.n = n,
                               !.no_index = ~q_index]
     IN  IF ~q_index \/ n = 0
         THEN /\ q_task' = [q_task EXCEPT ![t] =
                              [c EXCEPT !.ret = ReturnCount(n)]]
              /\ q_store' = q_store
         ELSE /\ q_task' = [q_task EXCEPT ![t] = [c EXCEPT !.pc = "embed"]]
              /\ q_store' = q_store
  /\ UNCHANGED q_index

\* embeddings.aembed_query returned for chunk i: the next chunk is embedded,
\* or, after the last one, the batches are upserted.
IndexEmbedded(t) ==
  /\ q_task[t].pc = "embed"
  /\ IF q_task[t].i + 1 < q_task[t].n
     THEN /\ q_task' = [q_task EXCEPT ![t].i = @ + 1]
          /\ q_store' = q_store
     ELSE IndexUpsertAll(t)
  /\ q_last' = NoDelete
  /\ UNCHANGED <<q_index, q_calls>>

\* index_document, had it upserted each chunk as soon as it was embedded:
\* the chunks before chunk i are in the store when the call for chunk i
\* raises.
IndexEmbedFailAfterUpserts(t) ==
  /\ q_task[t].pc = "embed"
  /\ q_store' = Upsert(q_store,
                       {VectorOf(q_task[t].document_id, q_task[t].metadata,
                                 j, q_task[t].n) :
                          j \in 0..(q_task[t].i - 1)})
  /\ q_task' = [q_task EXCEPT ![t] =
       [@ EXCEPT !.pc = "idle", !.embed_failed = TRUE, !.ret = Raise]]
  /\ q_last' = NoDelete
  /\ UNCHANGED <<q_index, q_calls>>

\* embeddings.aembed_query raised for chunk i: index_document raises.
IndexEmbedFail(t) ==
  /\ q_task[t].pc = "embed"
  /\ q_task' = [q_task EXCEPT ![t] =
       [@ EXCEPT !.pc = "idle", !.embed_failed = TRUE, !.ret = Raise]]
  /\ q_last' = NoDelete
  /\ UNCHANGED <<q_index, q_calls, q_store>>

(***************************************************************************)
(* DocumentQASystem.delete_document_index                                  *)
(***************************************************************************)
\* The whole call: it awaits nothing.  index.delete may raise; the
\* exception is logged and dropped (lines 186-187).
DeleteDocumentIndex(t, document_id, delete_fails) ==
  /\ CanBegin(t)
  /\ q_calls' = q_calls + 1
  /\ q_store' = IF q_index /\ ~delete_fails
                THEN DeleteByDocument(q_store, document_id)
                ELSE q_store
  /\ q_task' = [q_task EXCEPT ![t] =
       [IdleTask EXCEPT !.op = "delete", !.document_id = document_id,
                        !.no_index = ~q_index,
                        !.store_failed = (q_index /\ delete_fails),
                        !.overlapped =
                          (\E u \in Tasks :
                             /\ q_task[u].op = "index"
                             /\ q_task[u].pc = "embed"
                             /\ q_task[u].document_id = document_id),
                        !.ret = ReturnNone]]
  /\ q_last' = [document_id |-> document_id,
                deleted |-> (q_index /\ ~delete_fails),
                repeat |-> (q_last.deleted
                            /\ q_last.document_id = document_id)]
  /\ UNCHANGED q_index

(***************************************************************************)
(* DocumentQASystem.retrieve_relevant_chunks and answer_question           *)
(***************************************************************************)
\* The sources, had the loop run over chunks[-max_sources:].
SourcesOfLast(chunks, max_sources) ==
  LET k == IF Len(chunks) < max_sources THEN Len(chunks) ELSE max_sources
  IN  [i \in 1..k |->
         [document_id     |-> chunks[Len(chunks) - k + i].vector.document_id,
          filename        |-> chunks[Len(chunks) - k + i].vector.filename,
          document_type   |-> chunks[Len(chunks) - k + i].vector.document_type,
          relevance_score |-> Round3(chunks[Len(chunks) - k + i].score)]]

\* Lines 281-293: the sources for chunks[:max_sources].
SourcesOf(chunks, max_sources) ==
  [i \in 1..(IF Len(chunks) < max_sources THEN Len(chunks)
             ELSE max_sources) |->
     [document_id     |-> chunks[i].vector.document_id,
      filename        |-> chunks[i].vector.filename,
      document_type   |-> chunks[i].vector.document_type,
      relevance_score |-> Round3(chunks[i].score)]]

\* sum(s["relevance_score"] for s in sources), in thousandths.
RECURSIVE SumThousandths(_)
SumThousandths(sources) ==
  IF Len(sources) = 0 THEN 0
  ELSE Head(sources).relevance_score.n + SumThousandths(Tail(sources))

\* Lines 307-308: min(avg_relevance * 1.2, 1.0), for a non-empty sources.
AnswerConfidence(sources) ==
  CapAtOne(Num(12 * SumThousandths(sources), 10000 * Len(sources)))

\* Lines 270-275.
NoInformation == ReturnAnswer(NoInformationAnswer, <<>>, Num(0, 1))

\* answer_question from its call to its first await, the embedding of the
\* question in retrieve_relevant_chunks (line 208).
AnswerBegin(t, project_id, document_types, max_sources) ==
  /\ CanBegin(t)
  /\ q_calls' = q_calls + 1
  /\ q_task' = [q_task EXCEPT ![t] =
       [IdleTask EXCEPT !.op = "answer", !.pc = "embed_question",
                        !.project_id = project_id,
                        !.document_types = document_types,
                        !.max_sources = max_sources,
                        !.no_index = ~q_index]]
  /\ q_last' = NoDelete
  /\ UNCHANGED <<q_index, q_store>>

\* answer_question without the `if not chunks` of line 269: the language
\* model is asked whatever was retrieved.
AnswerAskingAlways(t, chunks, store_failed) ==
  q_task' = [q_task EXCEPT ![t] =
    [@ EXCEPT !.store_failed = store_failed, !.retrieved = Len(chunks),
              !.pc = "await_llm", !.chunks = chunks,
              !.sources = SourcesOf(chunks, q_task[t].max_sources),
              !.llm_calls = @ + 1]]

\* The rest of answer_question once `chunks` is known: the fixed answer for
\* no chunks (None and [] alike), else up to the awaited llm.ainvoke.
AnswerWithChunks(t, chunks, store_failed) ==
  LET c == [q_task[t] EXCEPT !.store_failed = store_failed,
                             !.retrieved = Len(chunks)]
  IN  IF Len(chunks) = 0
      THEN q_task' = [q_task EXCEPT ![t] =
             [c EXCEPT !.pc = "idle", !.ret = NoInformation]]
      ELSE q_task' = [q_task EXCEPT ![t] =
             [c EXCEPT !.pc = "await_llm", !.chunks = chunks,
                       !.sources = SourcesOf(chunks, c.max_sources),
                       !.llm_calls = @ + 1]]

\* The embedding of the question returned: index.query is called (when
\* there is an index) and either raises, which retrieve_relevant_chunks
\* turns into [], or gives its matches.  With no index the function returns
\* None.
AnswerEmbedded(t) ==
  /\ q_task[t].pc = "embed_question"
  /\ LET c == q_task[t]
     IN  IF ~q_index
         THEN AnswerWithChunks(t, <<>>, FALSE)
         ELSE \/ AnswerWithChunks(t, <<>>, TRUE)
              \/ \E m \in QueryResults(q_store, c.max_sources * 2,
                                       c.project_id, c.document_types) :
                   AnswerWithChunks(t, m, FALSE)
  /\ q_last' = NoDelete
  /\ UNCHANGED <<q_index, q_store, q_calls>>

\* The embedding of the question raised: retrieve_relevant_chunks returns
\* [] (lines 232-234).
AnswerEmbedFail(t) ==
  /\ q_task[t].pc = "embed_question"
  /\ q_task' = [q_task EXCEPT ![t] =
       [@ EXCEPT !.pc = "idle", !.embed_failed = TRUE,
                 !.ret = NoInformation]]
  /\ q_last' = NoDelete
  /\ UNCHANGED <<q_index, q_store, q_calls>>

\* llm.ainvoke returned: lines 304-322.
AnswerLLMReturned(t) ==
  /\ q_task[t].pc = "await_llm"
  /\ q_task' = [q_task EXCEPT ![t] =
       [@ EXCEPT !.pc = "idle", !.chunks = <<>>,
                 !.ret = ReturnAnswer(LLMAnswerText, q_task[t].sources,
                           Round3(AnswerConfidence(q_task[t].sources)))]]
  /\ q_last' = NoDelete
  /\ UNCHANGED <<q_index, q_store, q_calls>>

\* llm.ainvoke raised: lines 324-330.
AnswerLLMFailed(t) ==
  /\ q_task[t].pc = "await_llm"
  /\ q_task' = [q_task EXCEPT ![t] =
       [@ EXCEPT !.pc = "idle", !.chunks = <<>>, !.llm_failed = TRUE,
                 !.ret = ReturnAnswer(ErrorAnswerPrefix \o LLMErrorText,
                                      <<>>, Num(0, 1))]]
  /\ q_last' = NoDelete
  /\ UNCHANGED <<q_index, q_store, q_calls>>

(***************************************************************************)
(* summary_generator.py: the requests summarised in this model.            *)
(***************************************************************************)
\* The most issues of a request.
MaxIssues == 6

LitigationIssue ==
  [severity |-> "Critical",
   description |-> "Pending LITIGATION; the lease was Terminated."]
PermitIssue ==
  [severity |-> "Critical",
   description |->
     "The environmental permit application is incomplete and the a" \o
     "gency has asked for further studies of the wildlife impact."]
TerminationIssue ==
  [severity |-> "High",
   description |-> "Offtaker contract may be terminated early."]
SurveyIssue ==
  [severity |-> "Medium",
   description |-> "Minor gap in the site survey."]

Issues == {LitigationIssue, PermitIssue, TerminationIssue, SurveyIssue}

IssueLists == UNION {[1..n -> Issues] : n \in 0..MaxIssues}

\* The characters of a description.
DescriptionChars(s) ==
  CASE s = LitigationIssue.description ->
         <<"P","e","n","d","i","n","g"," ","L","I","T","I","G","A","T","I",
           "O","N",";"," ","t","h","e"," ","l","e","a","s","e"," ","w","a",
           "s"," ","T","e","r","m","i","n","a","t","e","d",".">>
    [] s = PermitIssue.description ->
         <<"T","h","e"," ","e","n","v","i","r","o","n","m","e","n","t","a",
           "l"," ","p","e","r","m","i","t"," ","a","p","p","l","i","c","a",
           "t","i","o","n"," ","i","s"," ","i","n","c","o","m","p","l","e",
           "t","e"," ","a","n","d"," ","t","h","e"," ","a","g","e","n","c",
           "y"," ","h","a","s"," ","a","s","k","e","d"," ","f","o","r"," ",
           "f","u","r","t","h","e","r"," ","s","t","u","d","i","e","s"," ",
           "o","f"," ","t","h","e"," ","w","i","l","d","l","i","f","e"," ",
           "i","m","p","a","c","t",".">>
    [] s = TerminationIssue.description ->
         <<"O","f","f","t","a","k","e","r"," ","c","o","n","t","r","a","c",
           "t"," ","m","a","y"," ","b","e"," ","t","e","r","m","i","n","a",
           "t","e","d"," ","e","a","r","l","y",".">>
    [] s = SurveyIssue.description ->
         <<"M","i","n","o","r"," ","g","a","p"," ","i","n"," ","t","h","e",
           " ","s","i","t","e"," ","s","u","r","v","e","y",".">>

\* description[:100]
First100(s) ==
  IF Len(s) <= 100 THEN s
  ELSE CASE s = PermitIssue.description ->
              "The environmental permit application is incomplete and the a" \o
              "gency has asked for further studies of t"

\* deal_breaker_keywords (lines 249-259)
deal_breaker_keywords ==
  <<<<"n","o"," ","i","n","t","e","r","c","o","n","n","e","c","t","i",
      "o","n"," ","a","g","r","e","e","m","e","n","t">>,
    <<"n","o"," ","p","p","a">>,
    <<"l","a","n","d"," ","l","e","a","s","e"," ","e","x","p","i","r",
      "e","d">>,
    <<"n","o"," ","e","n","v","i","r","o","n","m","e","n","t","a","l",
      " ","p","e","r","m","i","t">>,
    <<"t","i","t","l","e"," ","i","s","s","u","e">>,
    <<"l","i","t","i","g","a","t","i","o","n">>,
    <<"b","a","n","k","r","u","p","t","c","y">>,
    <<"f","o","r","c","e"," ","m","a","j","e","u","r","e">>,
    <<"t","e","r","m","i","n","a","t","e","d">>>>

\* checklist_status['completion_percentage'] of the requests, and a request
\* whose checklist_status has no entries.
Completions == {0, 49, 50, 69, 70, 74, 75, 76, 89, 90, 91, 100}

ChecklistOf(completion) ==
  DictOf({<<"completion_percentage", completion>>,
          <<"completed_items", 12>>, <<"total_items", 20>>})

ChecklistStatuses == {ChecklistOf(c) : c \in Completions} \cup {EmptyDict}

\* project_data: without capacity and PPA terms, and with both.
NoProjectData == [capacity_mw |-> PyNone, ppa_terms |-> EmptyDict]
SolarProject ==
  [capacity_mw |-> PyInt(10),
   ppa_terms |-> DictOf({<<"energy_price", PyStr("$45/MWh")>>,
                         <<"delivery_term_years", PyInt(25)>>})]

\* The same project with no delivery_term_years among its ppa_terms, and
\* with no energy_price.
SolarProjectNoTerm ==
  [capacity_mw |-> PyInt(10),
   ppa_terms |-> DictOf({<<"energy_price", PyStr("$45/MWh")>>})]
SolarProjectNoPrice ==
  [capacity_mw |-> PyInt(10),
   ppa_terms |-> DictOf({<<"delivery_term_years", PyInt(25)>>})]

ProjectData ==
  {NoProjectData, SolarProject, SolarProjectNoTerm, SolarProjectNoPrice}

\* What llm.ainvoke does: it returns a narrative or raises.
NarrativeText == "The project is at an early stage of diligence."
OtherNarrativeText == "Diligence is complete; no open items remain."
SummaryReplies == {[kind |-> "content", content |-> NarrativeText],
                   [kind |-> "content", content |-> OtherNarrativeText],
                   [kind |-> "raise", content |-> ""]}
NoSummaryReply == [kind |-> "none", content |-> ""]

(***************************************************************************)
(* ExecutiveSummaryGenerator                                               *)
(***************************************************************************)
\* d.get(key, default)
GetDefault(d, key, default) == IF key \in DOMAIN d THEN d[key] ELSE default

\* len([i for i in issues if i.get('severity') == severity])
CountSeverity(issues, severity) ==
  Cardinality({i \in 1..Len(issues) : issues[i].severity = severity})

\* int(x) of a float that is no less than 0.
IntOf(x) == x.n \div x.d

\* The revenue estimates, had they been made only for ppa_terms that give
\* delivery_term_years.
RevenueMetricsRequiringTerm(project_data) ==
  IF /\ Truthy(project_data.capacity_mw)
     /\ project_data.ppa_terms # EmptyDict
     /\ "delivery_term_years" \in DOMAIN project_data.ppa_terms
  THEN LET ppa == project_data.ppa_terms
       IN  IF Truthy(Get(ppa, "energy_price"))
           THEN LET price_match == FirstNumeral(Get(ppa, "energy_price").s)
                IN  IF Len(price_match) > 0
                    THEN LET price == NumeralValue(price_match[1])
                             capacity == AsFloat(project_data.capacity_mw)
                             term == ppa["delivery_term_years"].n
                             annual_revenue ==
                               Num(capacity.n * 8760 * 3 * price.n,
                                   capacity.d * 10 * price.d)
                         IN  {<<"estimated_lifetime_revenue_usd",
                                IntOf(Num(annual_revenue.n * term,
                                          annual_revenue.d))>>,
                              <<"estimated_annual_revenue_usd",
                                IntOf(annual_revenue)>>}
                    ELSE {}
           ELSE {}
  ELSE {}

\* Lines 223-239: the revenue estimates, or none.  capacity * 8760 * 0.30
\* and its products with price and term are exact in binary floating point
\* for the project data above.
RevenueMetrics(project_data) ==
  IF Truthy(project_data.capacity_mw) /\ project_data.ppa_terms # EmptyDict
  THEN LET ppa == project_data.ppa_terms
       IN  IF Truthy(Get(ppa, "energy_price"))
           THEN LET price_match == FirstNumeral(Get(ppa, "energy_price").s)
                IN  IF Len(price_match) > 0
                    THEN LET price == NumeralValue(price_match[1])
                             capacity == AsFloat(project_data.capacity_mw)
                             term == GetDefault(ppa, "delivery_term_years",
                                                PyInt(20)).n
                             annual_energy ==
                               Num(capacity.n * 8760 * 3, capacity.d * 10)
                             annual_revenue ==
                               Num(annual_energy.n * price.n,
                                   annual_energy.d * price.d)
                             lifetime_revenue ==
                               Num(annual_revenue.n * term, annual_revenue.d)
                         IN  {<<"estimated_lifetime_revenue_usd",
                                IntOf(lifetime_revenue)>>,
                              <<"estimated_annual_revenue_usd",
                                IntOf(annual_revenue)>>}
                    ELSE {}
           ELSE {}
  ELSE {}

_calculate_metrics(project_data, checklist_status, issues) ==
  DictOf({<<"completion_percentage",
            GetDefault(checklist_status, "completion_percentage", 0)>>,
          <<"documents_reviewed",
            GetDefault(checklist_status, "completed_items", 0)>>,
          <<"total_documents_required",
            GetDefault(checklist_status, "total_items", 0)>>,
          <<"critical_issues", CountSeverity(issues, "Critical")>>,
          <<"high_issues", CountSeverity(issues, "High")>>,
          <<"medium_issues", CountSeverity(issues, "Medium")>>,
          <<"total_issues", Len(issues)>>}
         \cup RevenueMetrics(project_data))

\* Whether some deal-breaker keyword is in the lower-cased description.
HasDealBreakerKeyword(description) ==
  LET lowered == Lower(DescriptionChars(description))
  IN  \E k \in 1..Len(deal_breaker_keywords) :
        Contains(lowered, deal_breaker_keywords[k])

\* [i for i in issues if i.get('severity') == 'Critical']
RECURSIVE CriticalIssues(_)
CriticalIssues(issues) ==
  IF Len(issues) = 0 THEN <<>>
  ELSE IF Head(issues).severity = "Critical"
       THEN <<Head(issues)>> \o CriticalIssues(Tail(issues))
       ELSE CriticalIssues(Tail(issues))

\* The descriptions above that have one.
DealBreakerDescriptions ==
  {i.description : i \in {j \in Issues :
                            HasDealBreakerKeyword(j.description)}}

\* The loop of lines 261-266 without its `break`: a description is appended
\* once for every keyword it contains.
RECURSIVE DealBreakersOfEveryKeyword(_)
DealBreakersOfEveryKeyword(critical_issues) ==
  IF Len(critical_issues) = 0 THEN <<>>
  ELSE LET description == Head(critical_issues).description
           lowered     == Lower(DescriptionChars(description))
           count       == Cardinality(
                            {k \in 1..Len(deal_breaker_keywords) :
                               Contains(lowered, deal_breaker_keywords[k])})
       IN  [i \in 1..count |-> description]
           \o DealBreakersOfEveryKeyword(Tail(critical_issues))

RECURSIVE DealBreakersOf(_)
DealBreakersOf(critical_issues) ==
  IF Len(critical_issues) = 0 THEN <<>>
  ELSE IF Head(critical_issues).description \in DealBreakerDescriptions
       THEN <<Head(critical_issues).description>>
            \o DealBreakersOf(Tail(critical_issues))
       ELSE DealBreakersOf(Tail(critical_issues))

\* The deal breakers, had they been looked for among the issues of every
\* severity.
_identify_deal_breakers_of_any_severity(issues) == DealBreakersOf(issues)

_identify_deal_breakers(issues) == DealBreakersOf(CriticalIssues(issues))

ActionItem(priority, action, owner, deadline) ==
  [priority |-> priority, action |-> action, owner |-> owner,
   deadline |-> deadline]

_generate_action_items(checklist_status, issues) ==
  LET completion ==
        GetDefault(checklist_status, "completion_percentage", 0)
      critical_issues == CriticalIssues(issues)
      top == IF Len(critical_issues) < 3 THEN Len(critical_issues) ELSE 3
  IN  (IF completion < 100
       THEN <<ActionItem("High", "Complete outstanding DD checklist items",
                         "Seller", "Before closing")>>
       ELSE <<>>)
      \o [i \in 1..top |->
            ActionItem("Critical",
                       "Resolve: " \o First100(critical_issues[i].description),
                       "Seller", "Immediate")]
      \o (IF completion > 75
          THEN <<ActionItem("Medium", "Schedule technical site visit",
                            "Buyer", "Next 2 weeks"),
                 ActionItem("Medium",
                            "Engage independent engineer for technical review",
                            "Buyer", "Next 2 weeks")>>
          ELSE <<>>)

\* The rating with the second test made before the first.
RiskRatingMediumFirst(critical_count, high_count, completion) ==
  IF critical_count > 0 \/ high_count > 5 \/ completion < 75 THEN "MEDIUM"
  ELSE IF critical_count > 3 \/ completion < 50 THEN "HIGH"
  ELSE IF high_count > 0 \/ completion < 90 THEN "MEDIUM-LOW"
  ELSE "LOW"

\* Lines 321-332.
RiskRating(critical_count, high_count, completion) ==
  IF critical_count > 3 \/ completion < 50 THEN "HIGH"
  ELSE IF critical_count > 0 \/ high_count > 5 \/ completion < 75
       THEN "MEDIUM"
  ELSE IF high_count > 0 \/ completion < 90 THEN "MEDIUM-LOW"
  ELSE "LOW"

_calculate_risk_rating(issues, metrics) ==
  RiskRating(GetDefault(metrics, "critical_issues", 0),
             GetDefault(metrics, "high_issues", 0),
             GetDefault(metrics, "completion_percentage", 0))

\* The recommendation with the count of critical issues tested before the
\* deal breakers.
RecommendationCautionFirst(has_deal_breakers, critical_count, completion) ==
  IF critical_count > 3
  THEN "CAUTION - Multiple critical issues require resolution "
       \o "before proceeding"
  ELSE IF has_deal_breakers
  THEN "DO NOT PROCEED - Critical deal breakers identified"
  ELSE IF completion < 70
  THEN "CONTINUE DD - Substantial information still required"
  ELSE IF completion > 90 /\ critical_count = 0
  THEN "PROCEED TO CLOSING - DD substantially complete with "
       \o "manageable risks"
  ELSE "CONTINUE DD - Complete outstanding items and address "
       \o "identified issues"

\* Lines 341-354.
Recommendation(has_deal_breakers, critical_count, completion) ==
  IF has_deal_breakers
  THEN "DO NOT PROCEED - Critical deal breakers identified"
  ELSE IF critical_count > 3
  THEN "CAUTION - Multiple critical issues require resolution "
       \o "before proceeding"
  ELSE IF completion < 70
  THEN "CONTINUE DD - Substantial information still required"
  ELSE IF completion > 90 /\ critical_count = 0
  THEN "PROCEED TO CLOSING - DD substantially complete with "
       \o "manageable risks"
  ELSE "CONTINUE DD - Complete outstanding items and address "
       \o "identified issues"

_generate_recommendation(deal_breakers, issues, metrics) ==
  Recommendation(Len(deal_breakers) > 0,
                 GetDefault(metrics, "critical_issues", 0),
                 GetDefault(metrics, "completion_percentage", 0))

NoSummary ==
  [kind |-> "none", narrative |-> "", metrics |-> EmptyDict,
   deal_breakers |-> <<>>, action_items |-> <<>>,
   overall_risk_rating |-> "", recommendation |-> ""]

\* Lines 97-126, after llm.ainvoke returned `narrative`.  generated_at, the
\* time of the call, is left out.
SummaryOf(narrative, project_data, checklist_status, issues) ==
  LET metrics == _calculate_metrics(project_data, checklist_status, issues)
      deal_breakers == _identify_deal_breakers(issues)
  IN  [kind |-> "returned",
       narrative |-> narrative,
       metrics |-> metrics,
       deal_breakers |-> deal_breakers,
       action_items |-> _generate_action_items(checklist_status, issues),
       overall_risk_rating |-> _calculate_risk_rating(issues, metrics),
       recommendation |->
         _generate_recommendation(deal_breakers, issues, metrics)]

\* generate_summary from its call to the awaited llm.ainvoke (line 96): the
\* prompt is formatted, which does not raise for these requests.
SummaryStart ==
  /\ s_pc = "start"
  /\ s_pc' = "await_llm"
  /\ s_llm_calls' = s_llm_calls + 1
  /\ UNCHANGED <<s_project_data, s_checklist_status, s_issues, s_reply,
                 s_result>>

\* generate_summary, had it caught the failure of llm.ainvoke and gone on
\* with an empty narrative.
SummaryResumeWithoutNarrative(reply) ==
  /\ s_pc = "await_llm"
  /\ s_pc' = "done"
  /\ s_reply' = reply
  /\ s_result' =
       SummaryOf(IF reply.kind = "raise" THEN "" ELSE reply.content,
                 s_project_data, s_checklist_status, s_issues)
  /\ UNCHANGED <<s_project_data, s_checklist_status, s_issues, s_llm_calls>>

\* llm.ainvoke returned or raised: the summary is built and returned, or
\* the exception is logged and raised again (lines 132-134).
SummaryResume(reply) ==
  /\ s_pc = "await_llm"
  /\ s_pc' = "done"
  /\ s_reply' = reply
  /\ s_result' =
       IF reply.kind = "raise"
       THEN [NoSummary EXCEPT !.kind = "raised"]
       ELSE SummaryOf(reply.content, s_project_data, s_checklist_status,
                      s_issues)
  /\ UNCHANGED <<s_project_data, s_checklist_status, s_issues, s_llm_calls>>

(***************************************************************************)
(* Specifications, one for each component.                                 *)
(***************************************************************************)
vars == <<c_vars, e_vars, q_vars, s_vars>>

StartClassify ==
  /\ c_pc = "start"
  /\ c_filename \in Filenames
  /\ c_text \in Texts
  /\ c_use_llm \in BOOLEAN
  /\ c_kw = NoValue
  /\ c_reply = NoReply
  /\ c_llm = NoValue
  /\ c_llm_calls = 0
  /\ c_result = NoValue

IdleClassify ==
  /\ c_pc = "idle"
  /\ c_filename = ""
  /\ c_text = <<>>
  /\ c_use_llm = FALSE
  /\ c_kw = NoValue
  /\ c_reply = NoReply
  /\ c_llm = NoValue
  /\ c_llm_calls = 0
  /\ c_result = NoValue

StartExtract ==
  /\ e_pc = "start"
  /\ e_text \in PPATexts
  /\ e_use_llm \in BOOLEAN
  /\ e_api_key \in BOOLEAN
  /\ e_regex = EmptyDict
  /\ e_reply = NoExtractReply
  /\ e_combined = EmptyDict
  /\ e_llm_calls = 0
  /\ e_result = NoValue

IdleExtract ==
  /\ e_pc = "idle"
  /\ e_text = <<>>
  /\ e_use_llm = FALSE
  /\ e_api_key = FALSE
  /\ e_regex = EmptyDict
  /\ e_reply = NoExtractReply
  /\ e_combined = EmptyDict
  /\ e_llm_calls = 0
  /\ e_result = NoValue

\* DocumentQASystem.__init__: _initialize_vector_db sets self.index, or
\* leaves it None (no Pinecone key, another VECTOR_DB_TYPE, an exception).
\* The index is empty to begin with.
StartQA ==
  /\ q_index \in BOOLEAN
  /\ q_store = {}
  /\ q_task = [t \in Tasks |-> IdleTask]
  /\ q_calls = 0
  /\ q_last = NoDelete

IdleQA ==
  /\ q_index = FALSE
  /\ q_store = {}
  /\ q_task = [t \in Tasks |-> IdleTask]
  /\ q_calls = MaxCalls
  /\ q_last = NoDelete

StartSummary ==
  /\ s_pc = "start"
  /\ s_project_data \in ProjectData
  /\ s_checklist_status \in ChecklistStatuses
  /\ s_issues \in IssueLists
  /\ s_llm_calls = 0
  /\ s_reply = NoSummaryReply
  /\ s_result = NoSummary

IdleSummary ==
  /\ s_pc = "idle"
  /\ s_project_data = NoProjectData
  /\ s_checklist_status = EmptyDict
  /\ s_issues = <<>>
  /\ s_llm_calls = 0
  /\ s_reply = NoSummaryReply
  /\ s_result = NoSummary

InitClassify == StartClassify /\ IdleExtract /\ IdleQA /\ IdleSummary

NextClassify ==
  \/ ClassifyStart /\ UNCHANGED <<e_vars, q_vars, s_vars>>
  \/ \E reply \in LLMReplies :
       ClassifyResume(reply) /\ UNCHANGED <<e_vars, q_vars, s_vars>>

SpecClassify == InitClassify /\ [][NextClassify]_vars

InitExtract == IdleClassify /\ StartExtract /\ IdleQA /\ IdleSummary

NextExtract ==
  \/ ExtractStart /\ UNCHANGED <<c_vars, q_vars, s_vars>>
  \/ \E reply \in ExtractReplies :
       ExtractResume(reply) /\ UNCHANGED <<c_vars, q_vars, s_vars>>

SpecExtract == InitExtract /\ [][NextExtract]_vars

InitQA == IdleClassify /\ IdleExtract /\ StartQA /\ IdleSummary

NextQA ==
  \/ \E t \in Tasks, d \in DocumentIds, n \in 0..MaxChunks :
       IndexBegin(t, d, n, CallerMetadata(d)) /\ UNCHANGED <<c_vars, e_vars, s_vars>>
  \/ \E t \in Tasks : IndexEmbedded(t) /\ UNCHANGED <<c_vars, e_vars, s_vars>>
  \/ \E t \in Tasks : IndexEmbedFail(t) /\ UNCHANGED <<c_vars, e_vars, s_vars>>
  \/ \E t \in Tasks, d \in DocumentIds, delete_fails \in BOOLEAN :
       DeleteDocumentIndex(t, d, delete_fails) /\ UNCHANGED <<c_vars, e_vars, s_vars>>
  \/ \E t \in Tasks, project_id \in QuestionProjects,
        document_types \in QuestionTypes, max_sources \in MaxSourcesChoices :
       AnswerBegin(t, project_id, document_types, max_sources)
       /\ UNCHANGED <<c_vars, e_vars, s_vars>>
  \/ \E t \in Tasks : AnswerEmbedded(t) /\ UNCHANGED <<c_vars, e_vars, s_vars>>
  \/ \E t \in Tasks : AnswerEmbedFail(t) /\ UNCHANGED <<c_vars, e_vars, s_vars>>
  \/ \E t \in Tasks : AnswerLLMReturned(t) /\ UNCHANGED <<c_vars, e_vars, s_vars>>
  \/ \E t \in Tasks : AnswerLLMFailed(t) /\ UNCHANGED <<c_vars, e_vars, s_vars>>

SpecQA == InitQA /\ [][NextQA]_vars

(***************************************************************************)
(* index_document and delete_document_index on documents of more chunks    *)
(* than one upsert batch holds.                                            *)
(***************************************************************************)
LargeChunks == batch_size + 1

\* The one document the calls are about.
LargeDocumentIds == {"doc-1"}

InitIndexDelete == InitQA

NextIndexDelete ==
  \/ \E t \in Tasks, d \in LargeDocumentIds :
       IndexBegin(t, d, LargeChunks, CallerMetadata(d))
       /\ UNCHANGED <<c_vars, e_vars, s_vars>>
  \/ \E t \in Tasks : IndexEmbedded(t) /\ UNCHANGED <<c_vars, e_vars, s_vars>>
  \/ \E t \in Tasks : IndexEmbedFail(t) /\ UNCHANGED <<c_vars, e_vars, s_vars>>
  \/ \E t \in Tasks, d \in LargeDocumentIds, delete_fails \in BOOLEAN :
       DeleteDocumentIndex(t, d, delete_fails)
       /\ UNCHANGED <<c_vars, e_vars, s_vars>>

SpecIndexDelete == InitIndexDelete /\ [][NextIndexDelete]_vars

InitSummary == IdleClassify /\ IdleExtract /\ IdleQA /\ StartSummary

NextSummary ==
  \/ SummaryStart /\ UNCHANGED <<c_vars, e_vars, q_vars>>
  \/ \E reply \in SummaryReplies :
       SummaryResume(reply) /\ UNCHANGED <<c_vars, e_vars, q_vars>>

SpecSummary == InitSummary /\ [][NextSummary]_vars

(***************************************************************************)
(* Properties of DocumentClassifier.classify_document (SpecClassify).      *)
(***************************************************************************)
ClassifyReturned == c_pc = "done" /\ c_result # Raised

\* C1: in every result returned by classify_document, on every path,
\* requires_review is true if and only if the confidence field of that same
\* result is below MIN_CLASSIFICATION_CONFIDENCE (0.75).
C1_ReviewIffBelowThreshold ==
  ClassifyReturned =>
    (c_result.requires_review
       <=> FLt(c_result.confidence, MIN_CLASSIFICATION_CONFIDENCE))

\* C2: for all inputs and any reply of the language model, the confidence
\* returned by classify_document lies in [0,1].
C2_ConfidenceInUnitInterval ==
  ClassifyReturned =>
    /\ FGe(c_result.confidence, Num(0, 1))
    /\ FGe(Num(1, 1), c_result.confidence)

\* The replies C3 is about: the call raised, or the reply has fewer than two
\* lines, a confidence line that is no number, or a type token that is no
\* document type.
MalformedReply(reply) ==
  \/ reply.kind = "raise"
  \/ /\ reply.kind = "content"
     /\ \/ Len(reply.lines) < 2
        \/ ParseFloat(reply.lines[2]) = ValueError
        \/ StripLower(reply.lines[1]) \notin DocumentTypeValues

\* C3: if the language-model call made by classify_document raises, or its
\* reply is malformed, classify_document does not raise: the LLM outcome is
\* (UNKNOWN, 0.0) and the returned type, confidence and method are those of
\* the keyword pass.
C3_LLMFailureFallsBackToKeywords ==
  (c_pc = "done" /\ MalformedReply(c_reply)) =>
    /\ c_result # Raised
    /\ c_llm = [type |-> UNKNOWN, confidence |-> Num(0, 1)]
    /\ c_result.document_type = c_kw.type
    /\ c_result.confidence = Round3(c_kw.confidence)
    /\ c_result.classification_method = "keywords"

\* A call whose reply has a confidence line that is no number, for a
\* document the keyword pass gave a type.
C3_Witness ==
  /\ c_pc = "done"
  /\ c_reply.kind = "content"
  /\ Len(c_reply.lines) = 2
  /\ ParseFloat(c_reply.lines[2]) = ValueError
  /\ c_kw.type # UNKNOWN
  /\ c_result # Raised
  /\ c_result.document_type = c_kw.type

\* The keywords, each named by its entry e of CLASSIFICATION_KEYWORDS and
\* its position i in the entry's list.
KeywordPositions ==
  UNION {{<<e, i>> : i \in 1..Len(CLASSIFICATION_KEYWORDS[e].keywords)} :
           e \in 1..Len(CLASSIFICATION_KEYWORDS)}

\* Whether each keyword occurs in each filename and in each line of text,
\* case ignored.  (No keyword holds a line break, so a keyword occurs in a
\* text exactly when it occurs in one of its lines.)
Occurs(chars, p) ==
  Contains(Lower(chars), CLASSIFICATION_KEYWORDS[p[1]].keywords[p[2]])
FilenameOccurrences ==
  {<<x[1], x[2][1], x[2][2], Occurs(Chars(x[1]), x[2])>> :
     x \in Filenames \X KeywordPositions}
LineOccurrences ==
  {<<x[1], x[2][1], x[2][2], Occurs(Chars(x[1]), x[2])>> :
     x \in DocLines \X KeywordPositions}

\* The keywords of entry e that occur in the call's filename, and those
\* that occur only in the body.
InFilename(e) ==
  {i \in 1..Len(CLASSIFICATION_KEYWORDS[e].keywords) :
     <<c_filename, e, i, TRUE>> \in FilenameOccurrences}
InBodyOnly(e) ==
  {i \in 1..Len(CLASSIFICATION_KEYWORDS[e].keywords) \ InFilename(e) :
     \E n \in 1..Len(c_text) : <<c_text[n], e, i, TRUE>> \in LineOccurrences}

\* The inputs C11 is about: no keyword of any configured type occurs.
NoKeywordOccurs ==
  \A e \in 1..Len(CLASSIFICATION_KEYWORDS) :
    InFilename(e) = {} /\ InBodyOnly(e) = {}

\* The weighted sum S for entry e of CLASSIFICATION_KEYWORDS: 2 for each
\* keyword found in the lower-cased filename, 1 for each keyword found only
\* in the body.
WeightedSum(e) ==
  2 * Cardinality(InFilename(e))
    + Cardinality(InBodyOnly(e))

\* min(S / (1.5 * number of keywords), 1.0) for entry e.
FormulaScore(e) ==
  LET S == WeightedSum(e)
      n == Len(CLASSIFICATION_KEYWORDS[e].keywords)
  IN  IF 2 * S > 3 * n THEN Num(1, 1) ELSE Num(2 * S, 3 * n)

\* C11: given text and filename with zero keyword matches across all
\* configured types, classify_by_keywords returns (UNKNOWN, 0.0), and it
\* returns UNKNOWN only in that case.
C11_UnknownIffNoKeywordMatch ==
  c_pc # "start" =>
    /\ NoKeywordOccurs => c_kw = [type |-> UNKNOWN, confidence |-> Num(0, 1)]
    /\ c_kw.type = UNKNOWN => NoKeywordOccurs

\* A scanned document with a non-empty text in which no keyword occurs.
C11_Witness ==
  /\ c_pc # "start"
  /\ c_filename = "scan_001.pdf"
  /\ Len(c_text) > 0
  /\ NoKeywordOccurs
  /\ c_kw = [type |-> UNKNOWN, confidence |-> Num(0, 1)]

\* The position of a type in the declaration of DocumentType, and the
\* position of its entry in CLASSIFICATION_KEYWORDS.
EnumIndex(t) == CHOOSE i \in 1..Len(DocumentType) : DocumentType[i] = t
TableIndex(t) ==
  CHOOSE e \in 1..Len(CLASSIFICATION_KEYWORDS) :
    CLASSIFICATION_KEYWORDS[e].doc_type = t

\* The types that attain the maximum normalized score for the call's
\* filename and text.
TopTypes ==
  LET present == {e \in 1..Len(CLASSIFICATION_KEYWORDS) : WeightedSum(e) > 0}
  IN  {CLASSIFICATION_KEYWORDS[e].doc_type :
         e \in {x \in present :
                  \A o \in present :
                    ~FGt(FormulaScore(o), FormulaScore(x))}}

\* C12 as stated: when two or more types attain the same maximum normalized
\* keyword score, classify_by_keywords returns the one declared first in
\* the DocumentType enumeration.
C12_TiesByEnumerationOrder ==
  c_pc # "start" =>
    LET top == TopTypes
    IN  Cardinality(top) >= 2 =>
          /\ c_kw.type \in top
          /\ \A t \in top : EnumIndex(c_kw.type) <= EnumIndex(t)

\* C12 as amended: when two or more types attain the same maximum
\* normalized keyword score, classify_by_keywords returns the one whose
\* entry comes first in CLASSIFICATION_KEYWORDS.
C12_TiesByKeywordTableOrder ==
  c_pc # "start" =>
    LET top == TopTypes
    IN  Cardinality(top) >= 2 =>
          /\ c_kw.type \in top
          /\ \A t \in top : TableIndex(c_kw.type) <= TableIndex(t)

\* A call in which environmental_permit and equipment_warranty tie for the
\* maximum and the keyword pass has returned.
C12_Witness ==
  /\ c_pc # "start"
  /\ TopTypes = {"environmental_permit", "equipment_warranty"}
  /\ c_kw.type = "environmental_permit"

\* The entries of CLASSIFICATION_KEYWORDS with a keyword, listed for no
\* other type, that occurs in the lower-cased filename; and the entries
\* that matched although none of their keywords occurs in the filename.
FilenameMatchedEntries ==
  {e \in 1..Len(CLASSIFICATION_KEYWORDS) :
     \E i \in InFilename(e) :
       \A o \in 1..Len(CLASSIFICATION_KEYWORDS) \ {e} :
         \A j \in 1..Len(CLASSIFICATION_KEYWORDS[o].keywords) :
           CLASSIFICATION_KEYWORDS[o].keywords[j]
             # CLASSIFICATION_KEYWORDS[e].keywords[i]}
BodyOnlyEntries ==
  {e \in 1..Len(CLASSIFICATION_KEYWORDS) :
     InFilename(e) = {} /\ InBodyOnly(e) # {}}

\* C13: given a filename containing a keyword present in only one type's
\* keyword list, the normalized score the keyword pass gives that type is
\* strictly higher than the score of any type whose keywords appear only in
\* the body text.
C13_FilenameKeywordOutscoresBody ==
  c_pc \notin {"idle", "start"} =>
    LET scores == KeywordScores(c_text, c_filename)
    IN  \A f \in FilenameMatchedEntries : \A b \in BodyOnlyEntries :
          /\ scores[f] # NoValue
          /\ scores[b] # NoValue
          /\ FGt(scores[f], scores[b])

\* C17: whenever the keyword pass reaches a confidence of at least
\* MIN_CLASSIFICATION_CONFIDENCE, classify_document returns the keyword type
\* with method 'keywords' and the language model is never invoked during
\* that call, whatever the value of use_llm; the model is likewise never
\* invoked when use_llm is false.
C17_ConfidentKeywordsSkipLLM ==
  /\ (c_pc \notin {"idle", "start"}
        /\ FGe(c_kw.confidence, MIN_CLASSIFICATION_CONFIDENCE)) =>
       /\ c_pc = "done"
       /\ c_llm_calls = 0
       /\ c_reply = NoReply
       /\ c_result # Raised
       /\ c_result.document_type = c_kw.type
       /\ c_result.classification_method = "keywords"
  /\ ~c_use_llm =>
       /\ c_pc # "await_llm"
       /\ c_llm_calls = 0
       /\ c_reply = NoReply

\* A call with use_llm set whose keyword pass gave om_contract with
\* confidence 0.8, returned without a language-model call.
C17_Witness ==
  /\ c_pc = "done"
  /\ c_use_llm
  /\ c_kw = [type |-> "om_contract", confidence |-> Num(12, 15)]
  /\ c_llm_calls = 0
  /\ c_result.classification_method = "keywords"

\* C18: when the keyword confidence is below the threshold and use_llm is
\* true, classify_document returns the type and the confidence (rounded to
\* three decimals, as every returned confidence is) of whichever of the
\* keyword result and the LLM result has the higher confidence, and the
\* method names that backend: 'llm' only when the LLM confidence is strictly
\* higher; on equal confidence the keyword result with method 'keywords'.
C18_HigherConfidenceWins ==
  (/\ c_pc = "done"
   /\ c_use_llm
   /\ FLt(c_kw.confidence, MIN_CLASSIFICATION_CONFIDENCE)) =>
    /\ c_llm_calls = 1
    /\ c_result # Raised
    /\ c_llm # NoValue
    /\ IF FGt(c_llm.confidence, c_kw.confidence)
       THEN /\ c_result.document_type = c_llm.type
            /\ c_result.confidence = Round3(c_llm.confidence)
            /\ c_result.classification_method = "llm"
       ELSE /\ c_result.document_type = c_kw.type
            /\ c_result.confidence = Round3(c_kw.confidence)
            /\ c_result.classification_method = "keywords"

\* The keyword pass found nothing (unknown, 0.0) and the language model
\* answered ppa with confidence 0.0: equal confidences, and the keyword
\* result is returned.
C18_Witness ==
  /\ c_pc = "done"
  /\ c_use_llm
  /\ c_kw = [type |-> UNKNOWN, confidence |-> Num(0, 1)]
  /\ c_llm # NoValue
  /\ c_llm.type = "ppa"
  /\ FEq(c_llm.confidence, Num(0, 1))
  /\ c_result.document_type = UNKNOWN
  /\ c_result.classification_method = "keywords"

\* C19: for each type with at least one matched keyword, the keyword pass
\* computes min(S / (1.5 * number of keywords of the type), 1.0), where S
\* adds 2 for each keyword found in the lower-cased filename and 1 for each
\* keyword found only in the body: the type returned has that score and no
\* matched type has a higher one.  For filename "PPA_Agreement.pdf" with a
\* body matching only 'power purchase agreement' and 'delivery point' this
\* gives type PPA with confidence (2+1+1)/13.5.
C19_KeywordScoreFormula ==
  c_pc \notin {"idle", "start"} =>
    /\ c_kw.type # UNKNOWN =>
         /\ WeightedSum(TableIndex(c_kw.type)) > 0
         /\ FEq(c_kw.confidence, FormulaScore(TableIndex(c_kw.type)))
         /\ \A e \in 1..Len(CLASSIFICATION_KEYWORDS) :
              WeightedSum(e) > 0 => FGe(c_kw.confidence, FormulaScore(e))
    /\ (/\ c_filename = "PPA_Agreement.pdf"
        /\ c_text = <<"This Power Purchase Agreement sets the delivery point.">>)
         => /\ c_kw.type = "ppa"
            /\ FEq(c_kw.confidence, Num(2 * (2 + 1 + 1), 27))

\* The keyword pass has run on PPA_Agreement.pdf with a body matching
\* 'power purchase agreement' and 'delivery point'.
C19_Witness ==
  /\ c_pc \notin {"idle", "start"}
  /\ c_filename = "PPA_Agreement.pdf"
  /\ c_text = <<"This Power Purchase Agreement sets the delivery point.">>
  /\ c_kw.type = "ppa"
  /\ WeightedSum(TableIndex("ppa")) = 4

(***************************************************************************)
(* Properties of PPAExtractor.extract (SpecExtract).                       *)
(***************************************************************************)
\* C4: extract never raises to the caller, for any text and any reply of
\* the language model: it always returns a terms record.
C4_ExtractNeverRaises == e_pc = "done" => ~e_result.raised

\* The short-term flags there are.
ShortTermFlags == {ShortTermFlag(PyInt(years)) : years \in 0..30}

FlagsOf(result) ==
  {result.terms["red_flags"].l[i] :
     i \in 1..Len(result.terms["red_flags"].l)}

\* C10: for every merged term set whose delivery term length is below 10
\* years, the red_flags of the result contain a short-contract-term flag
\* that names that number of years; a term of 10 years or more yields no
\* such flag.
C10_ShortTermFlagged ==
  (/\ e_pc = "done"
   /\ ~e_result.raised
   /\ Get(e_combined, "delivery_term_years").t = "int") =>
    LET years == Get(e_combined, "delivery_term_years")
    IN  IF years.n < 10
        THEN ShortTermFlag(years) \in FlagsOf(e_result)
        ELSE FlagsOf(e_result) \cap ShortTermFlags = {}

\* C20: when model extraction runs, the merged term set has, for every key
\* present in the model's reply, the model's value (also when the pattern
\* pass extracted a different value for that key), and for every key
\* extracted only by the pattern pass, the pattern value unchanged; no
\* pattern-only field is lost by the merge.
C20_ModelValuesOverridePatternValues ==
  (/\ e_pc = "done"
   /\ e_reply.kind = "content"
   /\ e_reply.json = "object") =>
    /\ e_llm_calls = 1
    /\ DOMAIN e_combined = DOMAIN e_regex \cup DOMAIN e_reply.object
    /\ \A k \in DOMAIN e_reply.object : e_combined[k] = e_reply.object[k]
    /\ \A k \in DOMAIN e_regex \ DOMAIN e_reply.object :
         e_combined[k] = e_regex[k]

\* An extraction whose reply gives a delivery term other than the one the
\* pattern pass found, while the pattern pass found a seller the reply
\* does not name.
C20_Witness ==
  /\ e_pc = "done"
  /\ e_reply.kind = "content"
  /\ e_reply.json = "object"
  /\ "delivery_term_years" \in DOMAIN e_regex \cap DOMAIN e_reply.object
  /\ e_regex["delivery_term_years"] # e_reply.object["delivery_term_years"]
  /\ e_combined["delivery_term_years"] = e_reply.object["delivery_term_years"]
  /\ "seller" \in DOMAIN e_regex \ DOMAIN e_reply.object
  /\ e_combined["seller"] = e_regex["seller"]

\* The critical terms that are in the set S, in their fixed order.
RECURSIVE SelectTerms(_, _)
SelectTerms(names, S) ==
  IF Len(names) = 0 THEN <<>>
  ELSE (IF Head(names) \in S THEN <<Head(names)>> ELSE <<>>)
       \o SelectTerms(Tail(names), S)

CriticalTermSet == {critical_terms[i] : i \in 1..Len(critical_terms)}

\* The aggregate entries there are: one for each non-empty set of critical
\* terms.
MissingFlags ==
  {MissingFlag(SelectTerms(critical_terms, S)) :
     S \in (SUBSET CriticalTermSet) \ {{}}}

\* The critical terms absent from the merged terms: those with no entry,
\* with the value None, or with an empty string.
AbsentTerms ==
  {k \in CriticalTermSet :
     \/ k \notin DOMAIN e_combined
     \/ e_combined[k].t = "NoneType"
     \/ e_combined[k].t = "str" /\ e_combined[k].s = ""}

\* C21: red_flags contains exactly one aggregate 'Missing critical terms'
\* entry if and only if at least one of seller, buyer, energy_price,
\* delivery_term_years, commercial_operation_date, delivery_point is absent
\* from the merged terms, and that entry lists exactly the absent fields in
\* that fixed order; when all six are present no such entry exists.
C21_MissingTermsEntry ==
  (e_pc = "done" /\ ~e_result.raised) =>
    LET flags   == e_result.terms["red_flags"].l
        entries == {i \in 1..Len(flags) : flags[i] \in MissingFlags}
    IN  IF AbsentTerms = {}
        THEN entries = {}
        ELSE /\ Cardinality(entries) = 1
             /\ \A i \in entries :
                  flags[i]
                    = MissingFlag(SelectTerms(critical_terms, AbsentTerms))

\* Whether string f is the element that one of the four rules contributes
\* for the merged terms: the short-term rule for a term below 10 years, the
\* low-price rule for a price below $20/MWh, the REC rule for rec_transfer
\* False, the missing-terms rule.
ByShortTermRule(f) ==
  /\ "delivery_term_years" \in DOMAIN e_combined
  /\ IsNumber(e_combined["delivery_term_years"])
  /\ FLt(AsFloat(e_combined["delivery_term_years"]), Num(10, 1))
  /\ f = ShortTermFlag(e_combined["delivery_term_years"])
ByLowPriceRule(f) ==
  /\ "energy_price" \in DOMAIN e_combined
  /\ e_combined["energy_price"].t = "str"
  /\ LET numeral == FirstNumeral(e_combined["energy_price"].s)
     IN  /\ Len(numeral) > 0
         /\ FLt(NumeralValue(numeral[1]), Num(20, 1))
         /\ f = LowPriceFlag(NumeralValue(numeral[1]))
ByRecRule(f) ==
  /\ "rec_transfer" \in DOMAIN e_combined
  /\ e_combined["rec_transfer"] = PyBool(FALSE)
  /\ f = RecFlag
ByMissingRule(f) == f \in MissingFlags

\* The red flags of the language model's reply, if it has any.
ReplyFlags ==
  IF e_reply.kind = "content" /\ e_reply.json = "object"
     /\ "red_flags" \in DOMAIN e_reply.object
  THEN {e_reply.object["red_flags"].l[i] :
          i \in 1..Len(e_reply.object["red_flags"].l)}
  ELSE {}

\* C22: every element of the red_flags list returned by extract was
\* produced by one of the four deterministic rules (short term, low price,
\* REC not transferred, missing critical terms) firing on the merged terms,
\* each rule contributing at most one element; red flags contained in the
\* language model's reply never appear in the result.
C22_RedFlagsTraceable ==
  (e_pc = "done" /\ ~e_result.raised) =>
    LET flags == e_result.terms["red_flags"].l
        I     == 1..Len(flags)
    IN  /\ \A i \in I :
             \/ ByShortTermRule(flags[i])
             \/ ByLowPriceRule(flags[i])
             \/ ByRecRule(flags[i])
             \/ ByMissingRule(flags[i])
        /\ Cardinality({i \in I : ByShortTermRule(flags[i])}) <= 1
        /\ Cardinality({i \in I : ByLowPriceRule(flags[i])}) <= 1
        /\ Cardinality({i \in I : ByRecRule(flags[i])}) <= 1
        /\ Cardinality({i \in I : ByMissingRule(flags[i])}) <= 1
        /\ \A i \in I : flags[i] \notin ReplyFlags

\* An extraction whose reply carried a red flag of its own, and whose
\* result has the flags of two rules.
C22_Witness ==
  /\ e_pc = "done"
  /\ ~e_result.raised
  /\ ReplyFlags # {}
  /\ Len(e_result.terms["red_flags"].l) >= 2
  /\ \E i \in 1..Len(e_result.terms["red_flags"].l) :
       ByShortTermRule(e_result.terms["red_flags"].l[i])

(***************************************************************************)
(* Properties of DocumentQASystem (SpecQA).                                *)
(***************************************************************************)
\* Task t has finished an answer_question call.
Answered(t) == q_task[t].op = "answer" /\ q_task[t].pc = "idle"

\* C5: when answer_question retrieves no chunks (nothing indexed for the
\* filter, no vector store configured, or retrieval failed), it returns the
\* fixed no-information answer with an empty sources sequence and
\* confidence 0.0, and the generative model is not invoked at any point of
\* that call.
C5_NoChunksNoLLM ==
  \A t \in Tasks :
    (/\ q_task[t].op = "answer"
     /\ q_task[t].pc # "embed_question"
     /\ q_task[t].retrieved = 0) =>
      /\ q_task[t].pc = "idle"
      /\ q_task[t].llm_calls = 0
      /\ q_task[t].ret.kind = "returned"
      /\ q_task[t].ret.answer = NoInformationAnswer
      /\ q_task[t].ret.sources = <<>>
      /\ q_task[t].ret.confidence = Num(0, 1)

\* An answer_question call finished whose index.query raised while the
\* store held vectors.
C5_Witness ==
  \E t \in Tasks :
    /\ Answered(t)
    /\ q_task[t].store_failed
    /\ q_task[t].retrieved = 0
    /\ q_store # {}

\* C6: answer_question never surfaces an internal error: whenever the
\* embedding service, the vector store or the generative model fails during
\* the call, the returned answer is the insufficient-information message,
\* with empty sources and confidence 0.0.
C6_NoInternalErrorSurfaces ==
  \A t \in Tasks :
    (/\ Answered(t)
     /\ \/ q_task[t].embed_failed
        \/ q_task[t].store_failed
        \/ q_task[t].llm_failed) =>
      /\ q_task[t].ret.kind = "returned"
      /\ q_task[t].ret.answer = NoInformationAnswer
      /\ q_task[t].ret.sources = <<>>
      /\ q_task[t].ret.confidence = Num(0, 1)

\* C14: the confidence that answer_question returns when at least one chunk
\* is kept equals min(average of the relevance scores of the kept sources
\* times 1.2, 1.0) and lies in [0,1], for every set of relevance scores the
\* vector store can return.
C14_AnswerConfidenceInUnitInterval ==
  \A t \in Tasks :
    (/\ Answered(t)
     /\ q_task[t].ret.kind = "returned"
     /\ Len(q_task[t].ret.sources) > 0) =>
      LET sources == q_task[t].ret.sources
          total   == SumThousandths(sources)
          scaled  == Num(12 * total, 10000 * Len(sources))
      IN  /\ FEq(q_task[t].ret.confidence, CapAtOne(scaled))
          /\ FGe(q_task[t].ret.confidence, Num(0, 1))
          /\ FGe(Num(1, 1), q_task[t].ret.confidence)

\* The metadata C15 asks of the chunk in position i of an index_document
\* call c: the call's document_id, the number of chunks of the call, the
\* position, and the caller's entries with their values.
CarriesMetadata(v, c, i) ==
  /\ v.document_id = c.document_id
  /\ v.total_chunks = c.n
  /\ v.chunk_index = i
  /\ v.filename = c.metadata.filename
  /\ v.document_type = c.metadata.document_type
  /\ v.project_id = c.metadata.project_id

Passing(t) ==
  {v \in q_store :
     MatchesFilter(v, q_task[t].project_id, q_task[t].document_types)}

Min(a, b) == IF a < b THEN a ELSE b

\* C23: answer_question queries the vector store for 2 * max_sources
\* neighbours and returns at most max_sources sources, which are the
\* highest-relevance chunks among those retrieved, listed in order of
\* descending relevance_score.
C23_TopSourcesByRelevance ==
  \A t \in Tasks :
    /\ (q_task[t].op = "answer" /\ q_task[t].pc = "await_llm") =>
         LET c       == q_task[t]
             chunks  == c.chunks
             sources == c.sources
         IN  /\ Len(chunks) = c.retrieved
             /\ Len(chunks) <= 2 * c.max_sources
             /\ Len(sources) = Min(c.max_sources, Len(chunks))
             /\ \A i \in 1..Len(sources) :
                  \E j \in 1..Len(chunks) :
                    /\ sources[i].document_id = chunks[j].vector.document_id
                    /\ sources[i].filename = chunks[j].vector.filename
                    /\ sources[i].document_type
                         = chunks[j].vector.document_type
                    /\ sources[i].relevance_score = Round3(chunks[j].score)
             /\ \A i \in 1..(Len(sources) - 1) :
                  FGe(sources[i].relevance_score,
                      sources[i + 1].relevance_score)
             /\ \A i \in 1..Len(sources) :
                  Cardinality({j \in 1..Len(chunks) :
                                 FGt(Round3(chunks[j].score),
                                     sources[i].relevance_score)}) < i
    /\ (Answered(t) /\ q_task[t].ret.kind = "returned") =>
         \/ q_task[t].ret.sources = <<>>
         \/ q_task[t].ret.sources = q_task[t].sources

\* A question with max_sources 1 for which two chunks of different scores
\* were retrieved.
C23_Witness ==
  \E t \in Tasks :
    /\ q_task[t].op = "answer"
    /\ q_task[t].pc = "await_llm"
    /\ q_task[t].max_sources = 1
    /\ Len(q_task[t].chunks) = 2
    /\ FGt(q_task[t].chunks[1].score, q_task[t].chunks[2].score)
    /\ Len(q_task[t].sources) = 1
    /\ q_task[t].sources[1].relevance_score
         = Round3(q_task[t].chunks[1].score)

\* C7: delete_document_index is idempotent.  Every call returns without
\* error and leaves the chunks of every other document id untouched; a call
\* for an id with no chunks in the store leaves the store unchanged, and so
\* does a call that directly follows a call for the same id whose delete
\* the store carried out.
C7_DeleteIdempotent ==
  [][(q_calls' = q_calls + 1 /\ q_last' # NoDelete) =>
       LET d == q_last'.document_id
       IN  /\ \E t \in Tasks :
                /\ q_task[t].pc = "idle"
                /\ q_task'[t].op = "delete"
                /\ q_task'[t].document_id = d
                /\ q_task'[t].pc = "idle"
                /\ q_task'[t].ret = ReturnNone
           /\ \A v \in q_store \cup q_store' :
                v.document_id # d => (v \in q_store /\ v \in q_store')
           /\ (\A v \in q_store : v.document_id # d) => q_store' = q_store
           /\ q_last'.repeat => q_store' = q_store]_vars

\* A second delete in a row for one id, with chunks of another id in the
\* store.
C7_Witness ==
  /\ q_last.repeat
  /\ q_last.deleted
  /\ \E v \in q_store : v.document_id # q_last.document_id

(***************************************************************************)
(* Properties of ExecutiveSummaryGenerator.generate_summary (SpecSummary). *)
(***************************************************************************)
SummaryReturned == s_pc = "done" /\ s_result.kind = "returned"

\* C8: overall_risk_rating is a total function of (critical_issues,
\* high_issues, completion), first match wins: HIGH if critical_issues > 3
\* or completion < 50; else MEDIUM if critical_issues > 0 or high_issues > 5
\* or completion < 75; else MEDIUM-LOW if high_issues > 0 or completion <
\* 90; else LOW.
C8_RiskRatingTable ==
  SummaryReturned =>
    LET critical   == s_result.metrics["critical_issues"]
        high       == s_result.metrics["high_issues"]
        completion == s_result.metrics["completion_percentage"]
        isHigh     == critical > 3 \/ completion < 50
        isMedium   == ~isHigh
                      /\ (critical > 0 \/ high > 5 \/ completion < 75)
        isMedLow   == ~isHigh /\ ~isMedium
                      /\ (high > 0 \/ completion < 90)
        rating     == s_result.overall_risk_rating
    IN  /\ rating \in {"HIGH", "MEDIUM", "MEDIUM-LOW", "LOW"}
        /\ rating = "HIGH" <=> isHigh
        /\ rating = "MEDIUM" <=> isMedium
        /\ rating = "MEDIUM-LOW" <=> isMedLow
        /\ rating = "LOW" <=> (~isHigh /\ ~isMedium /\ ~isMedLow)

\* A summary for completion 49 and no critical issue, rated HIGH.
C8_Witness ==
  /\ SummaryReturned
  /\ s_result.metrics["completion_percentage"] = 49
  /\ s_result.metrics["critical_issues"] = 0
  /\ s_result.overall_risk_rating = "HIGH"

\* C9: the recommendation is decided in fixed order, first match wins: any
\* non-empty deal_breakers forces DO NOT PROCEED whatever the completion and
\* the issue counts; otherwise critical_issues > 3 gives CAUTION; otherwise
\* completion < 70 gives the substantial-information message; otherwise
\* completion > 90 with critical_issues = 0 gives PROCEED TO CLOSING;
\* otherwise the default continue-DD message.
C9_RecommendationOrder ==
  SummaryReturned =>
    LET critical   == s_result.metrics["critical_issues"]
        completion == s_result.metrics["completion_percentage"]
        blocked    == Len(s_result.deal_breakers) > 0
        caution    == ~blocked /\ critical > 3
        substantial == ~blocked /\ ~caution /\ completion < 70
        closing    == /\ ~blocked /\ ~caution /\ ~substantial
                      /\ completion > 90 /\ critical = 0
        r          == s_result.recommendation
    IN  /\ blocked =>
             r = "DO NOT PROCEED - Critical deal breakers identified"
        /\ caution =>
             r = "CAUTION - Multiple critical issues require resolution "
                 \o "before proceeding"
        /\ substantial =>
             r = "CONTINUE DD - Substantial information still required"
        /\ closing =>
             r = "PROCEED TO CLOSING - DD substantially complete with "
                 \o "manageable risks"
        /\ (~blocked /\ ~caution /\ ~substantial /\ ~closing) =>
             r = "CONTINUE DD - Complete outstanding items and address "
                 \o "identified issues"

\* A summary with a deal breaker, more than three critical issues and a
\* complete checklist, recommending not to proceed.
C9_Witness ==
  /\ SummaryReturned
  /\ Len(s_result.deal_breakers) > 0
  /\ s_result.metrics["critical_issues"] > 3
  /\ s_result.metrics["completion_percentage"] = 100
  /\ s_result.recommendation
       = "DO NOT PROCEED - Critical deal breakers identified"

\* C16: generate_summary makes exactly one language-model call per request;
\* if that call fails, the whole request fails with the error propagated
\* and no summary is returned; and metrics, deal_breakers, action_items,
\* risk rating and recommendation of a returned summary are functions of
\* project_data, checklist_status and issues only, whatever the reply.
C16_OneCallFailureFatal ==
  /\ s_pc = "start" => s_llm_calls = 0
  /\ s_pc = "await_llm" => s_llm_calls = 1
  /\ s_pc = "done" =>
       /\ s_llm_calls = 1
       /\ s_reply.kind = "raise" =>
            s_result = [NoSummary EXCEPT !.kind = "raised"]
       /\ s_reply.kind = "content" =>
            LET metrics ==
                  _calculate_metrics(s_project_data, s_checklist_status,
                                     s_issues)
                deal_breakers == _identify_deal_breakers(s_issues)
            IN  /\ s_result.kind = "returned"
                /\ s_result.narrative = s_reply.content
                /\ s_result.metrics = metrics
                /\ s_result.deal_breakers = deal_breakers
                /\ s_result.action_items
                     = _generate_action_items(s_checklist_status, s_issues)
                /\ s_result.overall_risk_rating
                     = _calculate_risk_rating(s_issues, metrics)
                /\ s_result.recommendation
                     = _generate_recommendation(deal_breakers, s_issues,
                                                metrics)

\* A request with issues and project data whose language-model call raised.
C16_Witness ==
  /\ s_pc = "done"
  /\ s_llm_calls = 1
  /\ s_reply.kind = "raise"
  /\ s_result.kind = "raised"
  /\ Len(s_issues) > 0
  /\ s_project_data = SolarProject

\* The positions in issues of the Critical issues whose lower-cased
\* description contains a deal-breaker keyword.
DealBreakerPositions ==
  {i \in 1..Len(s_issues) :
     /\ s_issues[i].severity = "Critical"
     /\ s_issues[i].description \in DealBreakerDescriptions}

\* C24: deal_breakers contains the description, verbatim and in issue
\* order, of exactly those issues whose severity is Critical and whose
\* lower-cased description contains at least one keyword of the fixed
\* deal-breaker set; each such issue contributes once even if several
\* keywords match, and no issue of another severity ever contributes.
C24_DealBreakersVerbatimInOrder ==
  SummaryReturned =>
    LET P == DealBreakerPositions
        deal_breakers == s_result.deal_breakers
    IN  /\ Len(deal_breakers) = Cardinality(P)
        /\ \A j \in 1..Len(deal_breakers) :
             \E i \in P :
               /\ Cardinality({x \in P : x < i}) = j - 1
               /\ deal_breakers[j] = s_issues[i].description

\* A summary for issues among which are a Critical one naming two keywords
\* in capitals, a High one naming a keyword and a Critical one naming
\* none: one deal breaker.
C24_Witness ==
  /\ SummaryReturned
  /\ LitigationIssue.description \in DealBreakerDescriptions
  /\ TerminationIssue.description \in DealBreakerDescriptions
  /\ PermitIssue.description \notin DealBreakerDescriptions
  /\ {LitigationIssue, TerminationIssue, PermitIssue}
       \subseteq {s_issues[i] : i \in 1..Len(s_issues)}
  /\ Cardinality(DealBreakerPositions) = 1
  /\ s_result.deal_breakers = <<LitigationIssue.description>>

\* What project_data gives: whether capacity, PPA price and term are
\* present.
HasCapacity == s_project_data.capacity_mw.t # "NoneType"
HasPrice == "energy_price" \in DOMAIN s_project_data.ppa_terms
HasTerm == "delivery_term_years" \in DOMAIN s_project_data.ppa_terms
HasEstimates ==
  {"estimated_annual_revenue_usd", "estimated_lifetime_revenue_usd"}
    \cap DOMAIN s_result.metrics

\* capacity * 8760 * 0.30 * price, in dollars, and its product with a
\* number of years.
AnnualRevenue ==
  LET capacity == s_project_data.capacity_mw.n
      price == NumeralValue(
                 FirstNumeral(s_project_data.ppa_terms["energy_price"].s)[1])
  IN  (capacity * 8760 * 3 * price.n) \div (10 * price.d)
LifetimeRevenue(years) == AnnualRevenue * years

StepOf(t) == q_task'[t] # q_task[t]

\* C26: if an embedding call fails during index_document, the error
\* propagates to the caller and the vector store is unchanged by that call:
\* every step of the call up to and including the failing embedding leaves
\* the store as it was, so no chunk of the failing call has been written.
C26_EmbeddingFailureWritesNothing ==
  [][\A t \in Tasks :
       /\ (StepOf(t) /\ q_task'[t].op = "index" /\ q_task'[t].pc = "embed")
            => q_store' = q_store
       /\ (StepOf(t) /\ q_task'[t].op = "index" /\ q_task'[t].embed_failed)
            => /\ q_task[t].pc = "embed"
               /\ q_task'[t].pc = "idle"
               /\ q_task'[t].ret = Raise
               /\ q_store' = q_store]_vars

\* An index_document call for two chunks has raised at the embedding of its
\* second chunk, and the store is empty.
C26_Witness ==
  \E t \in Tasks :
    /\ q_task[t].op = "index"
    /\ q_task[t].embed_failed
    /\ q_task[t].n = 2
    /\ q_task[t].i = 1
    /\ q_task[t].ret = Raise
    /\ q_store = {}

\* The vectors stored for document_id.
StoredFor(document_id) == {v \in q_store : v.document_id = document_id}

\* C27: after any sequence of completed index_document and
\* delete_document_index calls, all chunks stored for one document id
\* carry the same total_chunks value and their chunk_index values are
\* exactly 0 .. total_chunks-1.
C27_StoreHoldsLatestIndexOnly ==
  (\A t \in Tasks : q_task[t].pc = "idle") =>
    \A document_id \in DocumentIds :
      \A v \in StoredFor(document_id) :
        /\ \A w \in StoredFor(document_id) :
             w.total_chunks = v.total_chunks
        /\ {w.chunk_index : w \in StoredFor(document_id)}
             = 0..(v.total_chunks - 1)
        /\ Cardinality(StoredFor(document_id)) = v.total_chunks

\* C28: whenever index_document returns a chunk count n without raising,
\* the vector store holds n chunks for that document id; in particular it
\* never reports n > 0 chunks indexed while nothing has been written.
C28_ReturnedCountIsStored ==
  [][\A t \in Tasks :
       (/\ StepOf(t)
        /\ q_task'[t].op = "index"
        /\ q_task'[t].ret.kind = "returned") =>
         Cardinality({v \in q_store' :
                        v.document_id = q_task'[t].document_id})
           = q_task'[t].ret.count]_vars

\* The chunk indexes of task t's index_document call whose vectors, as that
\* call writes them, are in the store.
WrittenOf(t) ==
  {i \in 0..(q_task[t].n - 1) :
     VectorOf(q_task[t].document_id, q_task[t].metadata, i, q_task[t].n)
       \in q_store}

\* C29: a delete_document_index(d) running concurrently with an
\* index_document(d) whose upserts all succeed cannot interleave between
\* that call's upsert batches: when both calls have finished the store
\* holds either all chunks of that index_document call or none of them,
\* never a strict non-empty subset.
C29_DeleteNeverSplitsBatches ==
  \A t \in Tasks, u \in Tasks :
    (/\ q_task[t].op = "index"
     /\ q_task[t].pc = "idle"
     /\ q_task[t].ret = ReturnCount(q_task[t].n)
     /\ ~q_task[t].no_index
     /\ q_task[u].op = "delete"
     /\ q_task[u].pc = "idle"
     /\ q_task[u].overlapped
     /\ q_task[u].document_id = q_task[t].document_id) =>
      \/ WrittenOf(t) = {}
      \/ WrittenOf(t) = 0..(q_task[t].n - 1)

\* Of two calls, a delete_document_index ran and deleted while the
\* index_document call for the same document, of two batches, was waiting
\* for an embedding; the index call has returned and all its chunks are in
\* the store.
C29_Witness ==
  \E t \in Tasks, u \in Tasks :
    /\ q_calls = 2
    /\ q_task[t].op = "index"
    /\ q_task[t].pc = "idle"
    /\ q_task[t].ret = ReturnCount(LargeChunks)
    /\ NumBatches(q_task[t].n) = 2
    /\ q_task[u].op = "delete"
    /\ q_task[u].overlapped
    /\ ~q_task[u].store_failed
    /\ q_task[u].document_id = q_task[t].document_id
    /\ WrittenOf(t) = 0..(LargeChunks - 1)

\* C30: in every summary returned by generate_summary the recommendation
\* and overall_risk_rating are consistent: a DO NOT PROCEED recommendation
\* (non-empty deal_breakers) never appears with rating LOW or MEDIUM-LOW,
\* and a PROCEED TO CLOSING recommendation never appears with rating HIGH
\* or with a non-empty deal_breakers list.
C30_RecommendationConsistentWithRating ==
  SummaryReturned =>
    LET r      == s_result.recommendation
        rating == s_result.overall_risk_rating
    IN  /\ Len(s_result.deal_breakers) > 0 <=>
             r = "DO NOT PROCEED - Critical deal breakers identified"
        /\ r = "DO NOT PROCEED - Critical deal breakers identified" =>
             rating \notin {"LOW", "MEDIUM-LOW"}
        /\ r = "PROCEED TO CLOSING - DD substantially complete with "
                 \o "manageable risks" =>
             /\ rating # "HIGH"
             /\ Len(s_result.deal_breakers) = 0

\* A summary for a complete checklist and one critical issue, a deal
\* breaker: rated MEDIUM, recommending not to proceed.
C30_Witness ==
  /\ SummaryReturned
  /\ s_issues = <<LitigationIssue>>
  /\ s_result.metrics["completion_percentage"] = 100
  /\ s_result.overall_risk_rating = "MEDIUM"
  /\ s_result.recommendation
       = "DO NOT PROCEED - Critical deal breakers identified"

====
